---- MODULE Spec2Model ----
(***************************************************************************)
(* A model of the LSM key-value engine: the write-ahead log (WAL.ts), the  *)
(* MemTable (MemTable.ts), the manifest (Manifest.ts), the compaction      *)
(* manager (CompactionManager) and the engine that drives them             *)
(* (LSMStore.ts).  Every await of the source is a step boundary: code      *)
(* between two awaits runs as one action.                                  *)
(*                                                                         *)
(* Spec is the engine under the sync-every-write policy with flushes and   *)
(* compactions in one run of the process; SpecCrash is the engine under    *)
(* that policy across process deaths and restarts; SpecGroup is the engine *)
(* under group commit, where appends wait in pendingWrites and flushBatch  *)
(* writes them batch by batch.  SpecReplay is initialize on a log segment   *)
(* with a damaged tail; SpecMerge is a MergeIterator run on its own;       *)
(* SpecFiles is the engine on a directory that already holds SSTables;     *)
(* SpecClose is the engine from initialize to the end of close; SpecRepl   *)
(* is a Primary with its ReplicationManager and a Backup that stops and    *)
(* starts, SpecReplLive the same under the fairness of the event loop.     *)
(* SpecBackup is the Backup's end of a replication connection; SpecCommit  *)
(* is group commit in one run of the process; SpecRead is SpecFiles with a *)
(* get call in progress; SpecSegments is initialize on two log segments,   *)
(* the first with a damaged tail.  SpecSave is a flush whose manifest save  *)
(* can fail; SpecShutdown is group commit up to the end of close under the *)
(* fairness of the event loop; SpecBatch is batchPut with flushes,         *)
(* compactions and process deaths; SpecAcks is SpecRepl with the acks      *)
(* arriving in chunks; SpecServer is the Backup's server with connections  *)
(* that come and go; SpecValues is puts of values and of the empty value   *)
(* under either policy.  SpecOrder (SortedMap, MergeIterator and SSTable   *)
(* writer) and SpecTable (an SSTable file, its writer and its reader) are  *)
(* components on their own with keys as strings.                           *)
(*                                                                         *)
(* In the engine keys are 1..NumKeys (their order is the key order): keys  *)
(* on which localeCompare (SortedMap, MergeIterator) and the order of code *)
(* units (SSTable reader and writer) agree; SpecOrder and SpecTable have   *)
(* keys as sequences of code units.  The value a put writes is the number  *)
(* of the put, so every put writes a value of its own, and the i-th entry  *)
(* of a batchPut writes BatchValue of the batch and i; 0 is the empty      *)
(* string a tombstone stores.  The field op of an entry or log record is a *)
(* history field naming the client write it came from.  Date.now() is      *)
(* modelled by the counter clock.                                          *)
(*                                                                         *)
(* File system: writes issued on one file handle reach the file in the     *)
(* order they were issued; close() of a handle waits for the calls in      *)
(* flight on it, and a call issued on a closed handle fails.  A process    *)
(* death keeps what was written to the files.                              *)
(***************************************************************************)
EXTENDS Integers, Sequences, FiniteSets, TLC

\* ------------------------------------------------------------------ bounds
NumKeys == 2
MaxOps == 3
MaxInflight == 1
MaxPending == 3
MaxCrashes == 1
MaxFaults == 1
CrcMod == 5
MaxRecords == 3
MaxLimit == 2
MaxSources == 3
MaxMergeKeys == 3
MaxSkips == 1
StoredFiles == 2
MaxFileOps == 2
MaxCloseOps == 1
MaxReplOps == 2
MaxFrames == 4
MaxChunk == 2
MaxSockets == 3
MaxKeyLen == 1
MaxTreeKeys == 2
MaxTables == 2
MaxEntries == 3
MaxInterval == 3
MaxReads == 1
MaxReadOps == 1
MaxBatch == 2
MaxBatchOps == 1
MaxValueOps == 3

Keys == 1..NumKeys

\* ------------------------------------------------------- program constants
MemTableSizeLimit == 50
MetadataSize == 49
CompactionThreshold == 4
BatchFlushLimit == 100

VARIABLES
  initialized,        \* LSMStore.initialized
  activeMemTable,     \* LSMStore.activeMemTable: [data, currentSize]
  immutableMemTable,  \* LSMStore.immutableMemTable: <<>> (null) or <<memtable>>
  sstables,           \* LSMStore.sstables: open readers, [fileNumber, data]
  flushing,           \* LSMStore.flushing
  flushPc,            \* position of doFlush
  flushLocal,         \* locals of doFlush: fileNumber, content of manifest.save
  manState,           \* Manifest.state (in memory)
  manDisk,            \* the file MANIFEST: <<>> or <<state>>
  manTmp,             \* the file MANIFEST.tmp: <<>> or <<state>>
  sstFiles,           \* sstables/sstable-<n>.sst: file number -> content
  walFiles,           \* wal/wal-<t>.log: t -> records
  currentLogFile,     \* WAL.currentLogFile (0: none)
  fileHandle,         \* WAL.fileHandle: "open", "closing", "closed"
  sequenceId,         \* WAL.sequenceId
  pendingWrites,      \* WAL.pendingWrites
  batches,            \* running flushBatch calls
  compacting,         \* CompactionManager.compacting
  compPc,             \* position of doCompaction
  compLocal,          \* locals of doCompaction
  clock,              \* Date.now()
  policy,             \* WAL.syncPolicy: "sync" or "group"
  ops,                \* history: the client writes, by number
  applied,            \* history: the writes in the order they completed
  notified,           \* history: the sequence ids the WAL's listener was called with
  crashes,            \* number of crashes so far
  faults,             \* number of injected I/O failures so far
  mergeSources,       \* a MergeIterator on its own: its sources
  mergeConfig,        \* its config.includeTombstones
  mergeOut,           \* the pairs its iterate() has yielded
  mergeDone,          \* its iterate() has run
  running,            \* CompactionManager.running: the check timer is set
  currentCompaction,  \* CompactionManager.currentCompaction is not null
  compRuns,           \* number of doCompaction calls between entry and finally
  closePc,            \* position of LSMStore.close
  skips,              \* triggerCompaction calls that returned at once
  role,               \* "standalone" or "primary"
  connected,          \* ReplicationManager.connected
  connecting,         \* ReplicationManager.connecting
  socket,             \* ReplicationManager.socket: "none", "opening", "open",
                      \*   "broken" (the peer is gone, no event yet), "closed"
  reconnectTimer,     \* ReplicationManager.reconnectTimer is set
  pendingAcks,        \* ReplicationManager.pendingAcks: sequence ids
  outbox,             \* Replicate frames on the connection, not yet read
  acks,               \* ReplicateAck frames on the connection, not yet read
  backupUp,           \* the Backup's ReplicationServer is listening
  received,           \* the records handed to the Backup's entryHandler
  sent,               \* history: the records written to a socket
  srvBuffer,          \* ReplicationServer: the connection's buffer, in frames
  framesIn,           \* history: the frames that arrived at the Backup
  rd,                 \* the get call in progress or returned last
  closeBatch,         \* first append of the batch WAL.close awaits, or 0
  mgrBuffer,          \* ReplicationManager.buffer: the pieces of frames not yet parsed
  primarySocket,      \* ReplicationServer.primarySocket: 0 (null) or a socket
  srvSockets,         \* the sockets the Backup's server was handed: socket -> state
  ordTree,            \* a SortedMap on its own: its keys in the order it iterates
  ordTables,          \* the SSTables built from it: each the keys the writer took
  ordThrown,          \* SSTableWriter.add has thrown
  tblFile,            \* an SSTable file on its own, as built, or << >>
  tblRead             \* the last get of its reader and what came of it, or << >>

vars == << initialized, activeMemTable, immutableMemTable, sstables, flushing,
           flushPc, flushLocal, manState, manDisk, manTmp, sstFiles, walFiles,
           currentLogFile, fileHandle, sequenceId, pendingWrites, batches,
           compacting, compPc, compLocal, clock, policy, ops, applied, crashes,
           faults, mergeSources, mergeConfig, mergeOut, mergeDone, running,
           currentCompaction, compRuns, closePc, skips, role, connected, connecting,
           socket, reconnectTimer, pendingAcks, outbox, acks, backupUp, received, sent,
           srvBuffer, framesIn, notified, rd, closeBatch, mgrBuffer, primarySocket,
           srvSockets, ordTree, ordTables, ordThrown, tblFile, tblRead >>

mergeVars == << mergeSources, mergeConfig, mergeOut, mergeDone >>
\* What no step of the engine changes.
lifeVars == << closePc, skips >>
replVars == << role, connected, connecting, socket, reconnectTimer, pendingAcks, outbox,
              acks, backupUp, received, sent >>
backupVars == << srvBuffer, framesIn >>
\* What only the specifications of one component change.
\* The connections as the handlers of the two ends see them.
connVars == << mgrBuffer, primarySocket, srvSockets >>
\* The components checked on their own, with keys as strings.
orderVars == << ordTree, ordTables, ordThrown >>
readerVars == << tblFile, tblRead >>
tableVars == << orderVars, readerVars >>
sideVars == << backupVars, rd, closeBatch, connVars, tableVars >>
\* What no step of the engine but the end of an append changes.
quietVars == << policy, mergeVars, lifeVars, replVars, sideVars >>
otherVars == << quietVars, notified >>
engineVars == << initialized, activeMemTable, immutableMemTable, sstables, flushing,
                 flushPc, flushLocal >>
manifestVars == << manState, manDisk, manTmp >>
walVars == << walFiles, currentLogFile, fileHandle, sequenceId, pendingWrites, batches >>
managerVars == << running, currentCompaction, compRuns >>
compVars == << compacting, compPc, compLocal, managerVars >>
histVars == << ops, applied >>

\* ------------------------------------------------------------- finite maps
EmptyMap == [x \in {} |-> 0]

MapPut(m, k, v) == [x \in (DOMAIN m) \cup {k} |-> IF x = k THEN v ELSE m[x]]

MapRemoveAll(m, ks) == [x \in (DOMAIN m) \ ks |-> m[x]]

SetMax(S) == CHOOSE x \in S : \A y \in S : y <= x

SetMin(S) == CHOOSE x \in S : \A y \in S : x <= y

\* The elements of a set of numbers in ascending order (readdir(...).sort()).
RECURSIVE SortedSeq(_)
SortedSeq(S) == IF S = {} THEN << >>
                ELSE << SetMin(S) >> \o SortedSeq(S \ {SetMin(S)})

\* ---------------------------------------------------------------- MemTable
KeySize(k) == 1

ValueSize(v) == IF v = 0 THEN 0 ELSE 1

calculateEntrySize(k, e) == KeySize(k) + ValueSize(e.value) + MetadataSize

NewMemTable == [data |-> EmptyMap, currentSize |-> 0]

\* MemTable.put: the old footprint is subtracted, the new one added.
MemPut(mt, k, v, del, op) ==
  LET e == [value |-> v, deleted |-> del, op |-> op]
      old == IF k \in DOMAIN mt.data THEN calculateEntrySize(k, mt.data[k]) ELSE 0
  IN [data |-> MapPut(mt.data, k, e),
      currentSize |-> mt.currentSize - old + calculateEntrySize(k, e)]

\* MemTable.delete: subtracts the old footprint, then calls put, which subtracts
\* it once more.
MemDelete(mt, k, op) ==
  LET old == IF k \in DOMAIN mt.data THEN calculateEntrySize(k, mt.data[k]) ELSE 0
  IN MemPut([mt EXCEPT !.currentSize = mt.currentSize - old], k, 0, TRUE, op)

isFull(mt) == mt.currentSize >= MemTableSizeLimit

\* ---------------------------------------------------------------- Manifest
EMPTY_MANIFEST_STATE == [sstables |-> << >>, nextFileNumber |-> 1, version |-> 0]

\* sstables.sort((a, b) => b.fileNumber - a.fileNumber): a stable sort into
\* descending file number, as an insertion of each element in turn.
RECURSIVE InsertDesc(_, _)
InsertDesc(s, x) ==
  IF s = << >> THEN << x >>
  ELSE IF Head(s).fileNumber >= x.fileNumber THEN << Head(s) >> \o InsertDesc(Tail(s), x)
       ELSE << x >> \o s

RECURSIVE SortDesc(_)
SortDesc(s) ==
  IF s = << >> THEN << >>
  ELSE InsertDesc(SortDesc(SubSeq(s, 1, Len(s) - 1)), s[Len(s)])

\* The metadata of an SSTable, as the manifest lists it.
Meta(n) == [fileNumber |-> n]

FileNumbers(list) == { list[i].fileNumber : i \in 1..Len(list) }

RECURSIVE RemoveFiles(_, _)
RemoveFiles(list, removed) ==
  IF list = << >> THEN << >>
  ELSE IF Head(list).fileNumber \in removed THEN RemoveFiles(Tail(list), removed)
       ELSE << Head(list) >> \o RemoveFiles(Tail(list), removed)

\* Manifest.applyEdit, the part before save(): next = 0 stands for an edit that
\* carries no nextFileNumber.
applyEdit(st, added, removed, next) ==
  LET list == SortDesc(RemoveFiles(st.sstables, removed) \o added)
      maxFileNumber == SetMax(FileNumbers(list) \cup {st.nextFileNumber - 1})
  IN [sstables |-> list,
      nextFileNumber |-> IF next # 0 THEN next ELSE maxFileNumber + 1,
      version |-> st.version + 1]

\* ------------------------------------------------------------- read path
\* SSTableReader.isInRange: firstKey <= key <= lastKey.
isInRange(data, k) ==
  /\ DOMAIN data # {}
  /\ k >= SetMin(DOMAIN data)
  /\ k <= SetMax(DOMAIN data)

\* The first reader of the list, in list order, that holds the key.
RECURSIVE SSTableLookup(_, _)
SSTableLookup(list, k) ==
  IF list = << >> THEN << >>
  ELSE IF isInRange(Head(list).data, k) /\ k \in DOMAIN Head(list).data
       THEN << Head(list).data[k] >>
       ELSE SSTableLookup(Tail(list), k)

\* LSMStore.get up to the entry it finds: << >> when no layer holds the key.
FindEntry(k) ==
  IF k \in DOMAIN activeMemTable.data THEN << activeMemTable.data[k] >>
  ELSE IF immutableMemTable # << >> /\ k \in DOMAIN immutableMemTable[1].data
       THEN << immutableMemTable[1].data[k] >>
       ELSE SSTableLookup(sstables, k)

\* LSMStore.get: 0 is null.
Get(k) ==
  LET e == FindEntry(k)
  IN IF e = << >> THEN 0 ELSE IF e[1].deleted THEN 0 ELSE e[1].value

\* ------------------------------------------------------------------- WAL
\* The value of entry i of the batchPut id: a value of its own.
BatchValue(id, i) == MaxOps * i + id

\* The log record of a client write.  The record of a batchPut holds the
\* sequence of its keys in key and the sequence of its values in value.
LogRecord(id, seq) ==
  [sequenceId |-> seq,
   operation |-> IF ops[id].kind = "putEmpty" THEN "put" ELSE ops[id].kind,
   key |-> ops[id].key,
   value |-> IF ops[id].kind = "put" THEN id
             ELSE IF ops[id].kind = "batchPut"
                  THEN [i \in 1..Len(ops[id].key) |-> BatchValue(id, i)]
                  ELSE 0,
   op |-> id]

\* The loop of batchPut and of the BATCH_PUT case of applyLogEntry: one
\* MemTable.put for every entry, in the order of the input.
RECURSIVE PutEntries(_, _, _, _)
PutEntries(mt, keys, values, op) ==
  IF keys = << >> THEN mt
  ELSE PutEntries(MemPut(mt, Head(keys), Head(values), FALSE, op), Tail(keys),
                  Tail(values), op)

\* LSMStore.applyLogEntry, and the MemTable calls of put, delete and batchPut.
applyLogEntry(mt, rec) ==
  IF rec.operation = "put" THEN MemPut(mt, rec.key, rec.value, FALSE, rec.op)
  ELSE IF rec.operation = "batchPut" THEN PutEntries(mt, rec.key, rec.value, rec.op)
  ELSE MemDelete(mt, rec.key, rec.op)

RECURSIVE ApplyAll(_, _)
ApplyAll(mt, recs) ==
  IF recs = << >> THEN mt ELSE ApplyAll(applyLogEntry(mt, Head(recs)), Tail(recs))

\* WAL.operationToCode.
operationToCode(operation) ==
  IF operation = "put" THEN 1 ELSE IF operation = "delete" THEN 2 ELSE 3

\* WAL.calculateChecksum: the CRC register starts from a fixed value and takes
\* in one byte after the other; the step is a bijection of the register for
\* every byte and of the byte for every register.  The register is kept
\* modulo CrcMod.
RECURSIVE CrcRegister(_, _)
CrcRegister(crc, bytes) ==
  IF bytes = << >> THEN crc
  ELSE CrcRegister((2 * crc + Head(bytes)) % CrcMod, Tail(bytes))

calculateChecksum(bytes) == CrcRegister(1, bytes)

\* The bytes of a serialized entry that follow its checksum field: sequence
\* id, operation code and payload.
EntryData(rec) ==
  IF rec.operation = "batchPut"
  THEN << rec.sequenceId, operationToCode(rec.operation), Len(rec.key) >>
          \o rec.key \o rec.value
  ELSE << rec.sequenceId, operationToCode(rec.operation), rec.key, rec.value >>

\* The length serializeEntry declares: checksum, sequence id, timestamp,
\* operation code and payload (key length, key, and for a put value length
\* and value).
RECURSIVE BatchPayloadSize(_, _)
BatchPayloadSize(keys, values) ==
  IF keys = << >> THEN 4
  ELSE 2 + KeySize(Head(keys)) + 4 + ValueSize(Head(values))
         + BatchPayloadSize(Tail(keys), Tail(values))

EntrySize(rec) ==
  IF rec.operation = "batchPut"
  THEN 4 + 8 + 8 + 1 + BatchPayloadSize(rec.key, rec.value)
  ELSE 4 + 8 + 8 + 1 + 2 + KeySize(rec.key)
         + (IF rec.operation = "put" THEN 4 + ValueSize(rec.value) ELSE 0)

\* What Buffer.allocUnsafe may have left in the checksum field before
\* serializeEntry fills it: zero, or the one value that takes the CRC register
\* back to its start value.  Every other value acts as zero does.
PlaceholderBytes == {0, CrcMod - 1}

\* WAL.serializeEntry: the checksum is calculated over buffer.slice(4), which
\* starts at the checksum field itself, still holding what allocUnsafe left
\* there (placeholder), and is then stored in that field.  A frame is the
\* entry as it is in the file: header is the number of bytes of the length
\* field that are in the file, length the length it declares, bytes the
\* number of entry bytes that follow it.
serializeEntry(rec, placeholder) ==
  [sequenceId |-> rec.sequenceId, operation |-> rec.operation, key |-> rec.key,
   value |-> rec.value, op |-> rec.op,
   checksum |-> calculateChecksum(<< placeholder >> \o EntryData(rec)),
   header |-> 4, length |-> EntrySize(rec), bytes |-> EntrySize(rec)]

\* WAL.validateChecksum: the stored checksum against the checksum of
\* buffer.slice(4) of the entry buffer, the bytes after the checksum field.
validateChecksum(frame) == frame.checksum = calculateChecksum(EntryData(frame))

\* The bytes of the frames of a file.
RECURSIVE FileSize(_)
FileSize(frames) ==
  IF frames = << >> THEN 0
  ELSE Head(frames).header + Head(frames).bytes + FileSize(Tail(frames))

\* WAL.readLogFile: the entries of one segment up to the first frame whose
\* length field is incomplete, whose declared length passes the end of the
\* file, that does not deserialize (the declared length cuts the entry) or
\* whose checksum does not validate.
RECURSIVE readLogFile(_)
readLogFile(frames) ==
  IF frames = << >> THEN << >>
  ELSE LET f == Head(frames)
       IN IF f.header < 4 THEN << >>
          ELSE IF 4 + f.length > FileSize(frames) THEN << >>
          ELSE IF f.length # EntrySize(f) THEN << >>
          ELSE IF ~validateChecksum(f) THEN << >>
          ELSE << f >> \o readLogFile(Tail(frames))

\* The frames of every segment, segments in file name order.
RECURSIVE ConcatFiles(_)
ConcatFiles(names) ==
  IF names = << >> THEN << >> ELSE walFiles[Head(names)] \o ConcatFiles(Tail(names))

diskRecords == ConcatFiles(SortedSeq(DOMAIN walFiles))

\* WAL.replay: the entries readLogFile returns for every segment, segments in
\* file name order.
RECURSIVE ReadFiles(_)
ReadFiles(names) ==
  IF names = << >> THEN << >>
  ELSE readLogFile(walFiles[Head(names)]) \o ReadFiles(Tail(names))

replay == ReadFiles(SortedSeq(DOMAIN walFiles))

\* WAL.readLastSequenceId: read from the current segment alone.
readLastSequenceId(file) ==
  IF file \in DOMAIN walFiles /\ readLogFile(walFiles[file]) # << >>
  THEN readLogFile(walFiles[file])[Len(readLogFile(walFiles[file]))].sequenceId + 1
  ELSE 0

\* The file system calls in flight on the WAL file handle: one for every
\* sync-every-write append that is writing or syncing, one for every running
\* flushBatch.  FileHandle.close() completes only when the last of them has
\* returned, and from then on every call on the handle fails.  Writes issued
\* on the handle reach the file in the order they were issued.
OpsInFlight == { i \in 1..Len(ops) : ops[i].status \in {"writing", "syncing"} }

HandleUsers == Cardinality(OpsInFlight) + Len(batches)

\* The handle after one call on it has returned.
HandleAfterReturn ==
  IF fileHandle = "closing" /\ HandleUsers = 1 THEN "closed" ELSE fileHandle

\* FileHandle.close() as checkpoint calls it, with users calls in flight.
CloseWith(users) == IF users = 0 THEN "closed" ELSE "closing"

HandleAfterClose == CloseWith(HandleUsers)

\* ------------------------------------------------------------------ Init
\* The locals of doFlush and of doCompaction while neither runs.
NoFlushLocal == [fileNumber |-> 0, content |-> EMPTY_MANIFEST_STATE]

NoCompLocal == [metas |-> << >>, newFileNumber |-> 0, merged |-> EmptyMap,
                content |-> EMPTY_MANIFEST_STATE, newSSTables |-> << >>]

\* No get has been called.
NoRead == [status |-> "none", key |-> 0, snapshot |-> << >>, pos |-> 0, result |-> 0,
           expected |-> 0, count |-> 0]

\* No compaction manager yet, close not called, no call made.
NotStarted ==
  /\ rd = NoRead
  /\ closeBatch = 0
  /\ running = FALSE
  /\ currentCompaction = FALSE
  /\ compRuns = 0
  /\ closePc = "none"
  /\ skips = 0

\* A ReplicationManager as constructed, and no traffic.
NoTraffic ==
  /\ connected = FALSE
  /\ connecting = FALSE
  /\ socket = "none"
  /\ reconnectTimer = FALSE
  /\ pendingAcks = << >>
  /\ outbox = << >>
  /\ acks = << >>
  /\ received = << >>
  /\ sent = << >>
  /\ srvBuffer = << >>
  /\ framesIn = << >>
  /\ mgrBuffer = << >>
  /\ primarySocket = 0
  /\ srvSockets = << >>
  /\ ordTree = << >>
  /\ ordTables = << >>
  /\ ordThrown = FALSE
  /\ tblFile = << >>
  /\ tblRead = << >>

\* No replication: the WAL has no listener.
Standalone ==
  /\ role = "standalone"
  /\ backupUp = FALSE
  /\ NoTraffic

\* No MergeIterator is run on its own.
NoMerge ==
  /\ mergeSources = << >>
  /\ mergeConfig = FALSE
  /\ mergeOut = << >>
  /\ mergeDone = FALSE

\* The engine as its constructor leaves it, on an empty data directory.
Constructed(syncPolicy) ==
  /\ initialized = FALSE
  /\ activeMemTable = NewMemTable
  /\ immutableMemTable = << >>
  /\ sstables = << >>
  /\ flushing = FALSE
  /\ flushPc = "idle"
  /\ flushLocal = NoFlushLocal
  /\ manState = EMPTY_MANIFEST_STATE
  /\ manDisk = << >>
  /\ manTmp = << >>
  /\ sstFiles = EmptyMap
  /\ walFiles = EmptyMap
  /\ currentLogFile = 0
  /\ fileHandle = "closed"
  /\ sequenceId = 0
  /\ pendingWrites = << >>
  /\ batches = << >>
  /\ compacting = FALSE
  /\ compPc = "idle"
  /\ compLocal = NoCompLocal
  /\ clock = 0
  /\ policy = syncPolicy
  /\ ops = << >>
  /\ applied = << >>
  /\ notified = << >>
  /\ crashes = 0
  /\ faults = 0

Start(syncPolicy) == NoMerge /\ NotStarted /\ Standalone /\ Constructed(syncPolicy)

\* An engine constructed on an empty data directory, sync-every-write.
Init == Start("sync")

\* The same under a group-commit policy.
InitGroup == Start("group")

\* ------------------------------------------------------------ initialize
\* LSMStore.loadSSTablesFromManifest: an SSTable that does not open is removed
\* from the manifest.
RECURSIVE LoadManifest(_, _)
LoadManifest(st, list) ==
  IF list = << >> THEN st
  ELSE IF Head(list).fileNumber \in DOMAIN sstFiles THEN LoadManifest(st, Tail(list))
       ELSE LoadManifest(applyEdit(st, << >>, {Head(list).fileNumber}, 0), Tail(list))

RECURSIVE LoadReaders(_)
LoadReaders(list) ==
  IF list = << >> THEN << >>
  ELSE IF Head(list).fileNumber \in DOMAIN sstFiles
       THEN << [fileNumber |-> Head(list).fileNumber,
                data |-> sstFiles[Head(list).fileNumber]] >> \o LoadReaders(Tail(list))
       ELSE LoadReaders(Tail(list))

\* CompactionManager.doCompaction up to its first await.
StartCompaction(st) ==
  /\ compacting' = TRUE
  /\ compRuns' = compRuns + 1
  /\ compPc' = "open"
  /\ compLocal' = [compLocal EXCEPT !.metas = st.sstables]

\* What initialize reads from the data directory: the manifest file, the
\* readers of the SSTables it lists, the MemTable the replay of the log gives.
LoadedManifest == IF manDisk = << >> THEN EMPTY_MANIFEST_STATE ELSE manDisk[1]

ReplayedMemTable == ApplyAll(NewMemTable, replay)

\* LSMStore.initialize: load the manifest, open the readers, open the log,
\* replay it into the active MemTable, start the compaction manager.
Initialize ==
  /\ ~initialized
  /\ LET loaded == LoadedManifest
         st == LoadManifest(loaded, loaded.sstables)
         logFiles == SortedSeq(DOMAIN walFiles)
         current == IF logFiles # << >> THEN logFiles[Len(logFiles)] ELSE clock + 1
     IN /\ manState' = st
        /\ manDisk' = IF st = loaded THEN manDisk ELSE << st >>
        /\ sstables' = LoadReaders(loaded.sstables)
        /\ currentLogFile' = current
        /\ clock' = IF logFiles # << >> THEN clock ELSE clock + 1
        /\ sequenceId' = IF logFiles # << >> THEN readLastSequenceId(current) ELSE 0
        /\ walFiles' = IF current \in DOMAIN walFiles THEN walFiles
                       ELSE MapPut(walFiles, current, << >>)
        /\ fileHandle' = "open"
        /\ activeMemTable' = ReplayedMemTable
        /\ running' = TRUE
        /\ IF Len(st.sstables) >= CompactionThreshold
           THEN StartCompaction(st) /\ currentCompaction' = TRUE
           ELSE UNCHANGED << compacting, compPc, compLocal, currentCompaction, compRuns >>
  /\ initialized' = TRUE
  /\ UNCHANGED << immutableMemTable, flushing, flushPc, flushLocal, manTmp, sstFiles,
                  pendingWrites, batches, otherVars, histVars, crashes, faults >>

\* ------------------------------------------------------------- write path
\* The fields of the engine a completing write touches.
EngineNow ==
  [active |-> activeMemTable, immutable |-> immutableMemTable, flushing |-> flushing,
   flushPc |-> flushPc, local |-> flushLocal]

\* A maybeFlush that swaps whenever the MemTable is full.
maybeFlushWhenFull(e) ==
  IF isFull(e.active)
  THEN [active |-> NewMemTable, immutable |-> << e.active >>, flushing |-> TRUE,
        flushPc |-> "build",
        local |-> [NoFlushLocal EXCEPT !.fileNumber = manState.nextFileNumber]]
  ELSE e

\* LSMStore.maybeFlush, with triggerFlush and doFlush up to its first await
\* when the MemTable is full and no flush is running: the MemTables are
\* swapped and the file number of the new SSTable is read from the manifest.
maybeFlush(e) ==
  IF isFull(e.active) /\ ~e.flushing
  THEN [active |-> NewMemTable, immutable |-> << e.active >>, flushing |-> TRUE,
        flushPc |-> "build",
        local |-> [NoFlushLocal EXCEPT !.fileNumber = manState.nextFileNumber]]
  ELSE e

\* The history record of a client write: batch is the first write of the
\* flushBatch call that took it, 0 when none has.
NewOp(kind, k, status, seq) ==
  [kind |-> kind, key |-> k, status |-> status, seq |-> seq, batch |-> 0]

\* WAL.serializePayload throws on a PUT whose key or value is falsy, as the
\* empty string is: the put of kind "putEmpty" is a put of the value "".
serializePayloadThrows(op) == op.kind = "putEmpty"

Unsettled == { i \in 1..Len(ops) : ops[i].status \in {"writing", "syncing", "pending", "batch"} }

\* LSMStore.put and LSMStore.delete with WAL.append up to the first await,
\* sync-every-write: the record gets the next sequence id and its write is
\* issued; on a closed handle writeEntry throws and the call fails.
WriteCallSync(kind, k) ==
  /\ initialized
  /\ policy = "sync"
  /\ Len(ops) < MaxOps
  /\ Cardinality(Unsettled) < MaxInflight
  /\ sequenceId' = sequenceId + 1
  /\ ops' = Append(ops, NewOp(kind, k,
                              IF \/ fileHandle = "closed"
                                 \/ serializePayloadThrows(NewOp(kind, k, "", 0))
                              THEN "failed" ELSE "writing",
                              sequenceId))
  /\ UNCHANGED << sstFiles, engineVars, manifestVars, walFiles, currentLogFile, fileHandle,
                  pendingWrites, batches, compVars, clock, otherVars, applied, crashes,
                  faults >>

\* fileHandle.write returns: the record is in the segment; fileHandle.sync is
\* issued, which fails when the handle has been closed meanwhile.
WriteReturns(id, placeholder) ==
  /\ id \in 1..Len(ops)
  /\ ops[id].status = "writing"
  /\ walFiles' = [walFiles EXCEPT ![currentLogFile] =
                     Append(@, serializeEntry(LogRecord(id, ops[id].seq), placeholder))]
  /\ fileHandle' = HandleAfterReturn
  /\ ops' = [ops EXCEPT ![id].status =
                IF HandleAfterReturn = "closed" THEN "failed" ELSE "syncing"]
  /\ UNCHANGED << sstFiles, engineVars, manifestVars, currentLogFile, sequenceId, pendingWrites,
                  batches, compVars, clock, otherVars, applied, crashes, faults >>

\* The rest of put and delete once append has resolved: the MemTable is
\* written and maybeFlush runs.
RECURSIVE CompleteAll(_, _)
CompleteAll(e, ids) ==
  IF ids = << >> THEN e
  ELSE CompleteAll(
         maybeFlush([e EXCEPT !.active =
                       applyLogEntry(e.active, LogRecord(Head(ids), ops[Head(ids)].seq))]),
         Tail(ids))

\* The writes ids complete, in this order, on the engine fields e.
CompleteWrites(e, ids) ==
  LET r == CompleteAll(e, ids)
  IN /\ activeMemTable' = r.active
     /\ immutableMemTable' = r.immutable
     /\ flushing' = r.flushing
     /\ flushPc' = r.flushPc
     /\ flushLocal' = r.local
     /\ applied' = applied \o ids
     /\ UNCHANGED << initialized, sstables >>

\* ReplicationManager.scheduleReconnect: the timer after the call.
scheduleReconnect == IF reconnectTimer \/ connecting THEN reconnectTimer ELSE TRUE

\* A replicate that returns only once it has a connection to write to.
replicateConnected(seq) ==
  /\ connected
  /\ socket # "none"
  /\ pendingAcks' = Append(pendingAcks, seq)
  /\ outbox' = IF socket = "open" THEN Append(outbox, seq) ELSE outbox
  /\ sent' = Append(sent, seq)
  /\ UNCHANGED << reconnectTimer, role, connected, connecting, socket, acks, backupUp,
                  received >>

\* ReplicationManager.replicate: without a connection it schedules a
\* reconnect and returns; with one it queues the record for its ack and writes
\* the frame to the socket, which drops it when the peer is gone.
replicate(seq) ==
  /\ IF ~connected \/ socket = "none"
     THEN /\ reconnectTimer' = scheduleReconnect
          /\ UNCHANGED << pendingAcks, outbox, sent >>
     ELSE /\ pendingAcks' = Append(pendingAcks, seq)
          /\ outbox' = IF socket = "open" THEN Append(outbox, seq) ELSE outbox
          /\ sent' = Append(sent, seq)
          /\ UNCHANGED reconnectTimer
  /\ UNCHANGED << role, connected, connecting, socket, acks, backupUp, received >>

\* The WAL calls its listener with the records of the writes ids, in this
\* order.
Notify(opsNow, ids) ==
  notified' = notified \o [i \in 1..Len(ids) |-> opsNow[ids[i]].seq]

\* The WAL's listener, called with the record once its append is durable.
\* On a Primary it is ReplicationManager.replicate.
Listener(id) ==
  /\ Notify(ops, << id >>)
  /\ IF role = "primary" THEN replicate(ops[id].seq) ELSE UNCHANGED replVars

\* fileHandle.sync returns: append resolves, the listener has been called,
\* and put or delete goes on to the MemTable.
SyncReturns(id) ==
  /\ id \in 1..Len(ops)
  /\ ops[id].status = "syncing"
  /\ fileHandle' = HandleAfterReturn
  /\ ops' = [ops EXCEPT ![id].status = "done"]
  /\ Listener(id)
  /\ CompleteWrites(EngineNow, << id >>)
  /\ UNCHANGED << sstFiles, manifestVars, walFiles, currentLogFile, sequenceId, pendingWrites,
                  batches, compVars, clock, policy, mergeVars, lifeVars, sideVars, crashes,
                  faults >>

\* fileHandle.sync fails: append rejects, the MemTable is not written.
SyncFails(id) ==
  /\ id \in 1..Len(ops)
  /\ ops[id].status = "syncing"
  /\ faults < MaxFaults
  /\ faults' = faults + 1
  /\ fileHandle' = HandleAfterReturn
  /\ ops' = [ops EXCEPT ![id].status = "failed"]
  /\ UNCHANGED << sstFiles, engineVars, manifestVars, walFiles, currentLogFile, sequenceId,
                  pendingWrites, batches, compVars, clock, otherVars, applied, crashes >>

Range(seq) == { seq[i] : i \in 1..Len(seq) }

RemoveAt(seq, i) == SubSeq(seq, 1, i - 1) \o SubSeq(seq, i + 1, Len(seq))

\* flushBatch, the appends of a batch that resolve: all of them once the fsync
\* has returned, none when a write or the fsync has thrown.
Resolved(entries, ok) == IF ok THEN entries ELSE << >>

\* flushBatch settles a batch: every append of it resolves or every append
\* rejects, and the puts and deletes that resolved go on to the MemTable.  When
\* checkpoint called flushBatch, checkpoint goes on to close the file handle,
\* or throws and fails doFlush.  opsNow is the history, rest the flushBatch
\* calls still running, handle the file handle as the batch leaves it.
SettleBatch(opsNow, batch, ok, rest, handle) ==
  LET won == Resolved(batch.entries, ok)
      e == IF batch.owner # "checkpoint" THEN EngineNow
           ELSE IF ok THEN [EngineNow EXCEPT !.flushPc = "ckpt_unlink"]
                ELSE [EngineNow EXCEPT !.flushPc = "idle", !.flushing = FALSE,
                                       !.local = NoFlushLocal]
  IN /\ batches' = rest
     /\ ops' = [i \in 1..Len(opsNow) |->
                  IF i \in Range(batch.entries)
                  THEN [opsNow[i] EXCEPT !.batch = Head(batch.entries),
                                         !.status = IF i \in Range(won) THEN "done"
                                                    ELSE "failed"]
                  ELSE opsNow[i]]
     /\ Notify(opsNow, won)
     /\ CompleteWrites(e, won)
     /\ fileHandle' = IF batch.owner = "checkpoint" /\ ok
                      THEN CloseWith(Len(rest) + Cardinality(OpsInFlight))
                      ELSE handle

\* flushBatch up to its first await: the pending writes become the batch of
\* this call, the pending list is emptied and the write of the first entry is
\* issued; on a closed handle, or on an entry serializePayload rejects,
\* writeEntry throws and the batch is rejected.
StartBatch(opsNow, pend, owner) ==
  /\ pendingWrites' = << >>
  /\ IF fileHandle = "closed" \/ serializePayloadThrows(opsNow[Head(pend)])
     THEN SettleBatch(opsNow, [entries |-> pend, written |-> 0, owner |-> owner],
                      FALSE, batches, fileHandle)
     ELSE /\ batches' = Append(batches, [entries |-> pend, written |-> 0, owner |-> owner])
          /\ ops' = [i \in 1..Len(opsNow) |->
                       IF i \in Range(pend)
                       THEN [opsNow[i] EXCEPT !.status = "batch", !.batch = Head(pend)]
                       ELSE opsNow[i]]
          /\ UNCHANGED << engineVars, applied, notified, fileHandle >>

\* ------------------------------------------------------------------ flush
\* doFlush throws: triggerFlush's catch logs it, its finally clears the flag.
\* The immutable MemTable stays where it is.
FlushFailed ==
  /\ flushing' = FALSE
  /\ flushPc' = "idle"
  /\ flushLocal' = NoFlushLocal
  /\ UNCHANGED << initialized, activeMemTable, immutableMemTable, sstables >>

\* writer.build() returns: the SSTable file is in place under its final name;
\* manifest.addSSTable runs applyEdit up to the first await of save().
FlushBuild ==
  /\ flushPc = "build"
  /\ LET n == flushLocal.fileNumber
         st == applyEdit(manState, << Meta(n) >>, {}, n + 1)
     IN /\ sstFiles' = MapPut(sstFiles, n, immutableMemTable[1].data)
        /\ manState' = st
        /\ flushLocal' = [flushLocal EXCEPT !.content = st]
  /\ flushPc' = "man_write"
  /\ UNCHANGED << initialized, activeMemTable, immutableMemTable, sstables, flushing,
                  manDisk, manTmp, walVars, compVars, clock, otherVars, histVars, crashes,
                  faults >>

\* writer.build() fails.
FlushBuildFails ==
  /\ flushPc = "build"
  /\ faults < MaxFaults
  /\ faults' = faults + 1
  /\ FlushFailed
  /\ UNCHANGED << manifestVars, sstFiles, walVars, compVars, clock, otherVars, histVars,
                  crashes >>

\* Manifest.save: writeFile(MANIFEST.tmp) returns.
FlushManifestWrite ==
  /\ flushPc = "man_write"
  /\ manTmp' = << flushLocal.content >>
  /\ flushPc' = "man_rename"
  /\ UNCHANGED << initialized, activeMemTable, immutableMemTable, sstables, flushing,
                  flushLocal, manState, manDisk, sstFiles, walVars, compVars, clock,
                  otherVars, histVars, crashes, faults >>

\* Manifest.save: writeFile(MANIFEST.tmp) rejects before it has written
\* anything.  applyEdit lets the error through; this.state, assigned before
\* save() was called, stays as it is.
FlushManifestWriteFails ==
  /\ flushPc = "man_write"
  /\ faults < MaxFaults
  /\ faults' = faults + 1
  /\ FlushFailed
  /\ UNCHANGED << manifestVars, sstFiles, walVars, compVars, clock, otherVars, histVars,
                  crashes >>

\* Manifest.save: fsync and rename of MANIFEST.tmp; both fail when another
\* save has renamed the file away.
FlushManifestRename ==
  /\ flushPc = "man_rename"
  /\ IF manTmp = << >>
     THEN /\ FlushFailed
          /\ UNCHANGED << manDisk, manTmp >>
     ELSE /\ manDisk' = manTmp
          /\ manTmp' = << >>
          /\ flushPc' = "open"
          /\ UNCHANGED << initialized, activeMemTable, immutableMemTable, sstables,
                          flushing, flushLocal >>
  /\ UNCHANGED << manState, sstFiles, walVars, compVars, clock, otherVars, histVars,
                  crashes, faults >>

\* SSTableReader.openFile returns, the reader is put in front of the list, and
\* wal.checkpoint runs up to its first await: under group commit with writes
\* pending that is flushBatch, otherwise fileHandle.close().  openFile throws
\* when the file is not there.
FlushOpenReader ==
  /\ flushPc = "open"
  /\ LET n == flushLocal.fileNumber
     IN IF n \notin DOMAIN sstFiles
        THEN /\ FlushFailed
             /\ UNCHANGED << fileHandle, batches, pendingWrites, histVars >>
        ELSE /\ sstables' = << [fileNumber |-> n, data |-> sstFiles[n]] >> \o sstables
             /\ IF pendingWrites # << >>
                THEN /\ batches' = Append(batches, [entries |-> pendingWrites,
                                                     written |-> 0,
                                                     owner |-> "checkpoint"])
                     /\ pendingWrites' = << >>
                     /\ ops' = [i \in 1..Len(ops) |->
                                  IF i \in Range(pendingWrites)
                                  THEN [ops[i] EXCEPT !.status = "batch",
                                                      !.batch = Head(pendingWrites)]
                                  ELSE ops[i]]
                     /\ flushPc' = "ckpt_flush"
                     /\ UNCHANGED fileHandle
                ELSE /\ fileHandle' = HandleAfterClose
                     /\ flushPc' = "ckpt_unlink"
                     /\ UNCHANGED << batches, pendingWrites, ops >>
             /\ UNCHANGED << initialized, activeMemTable, immutableMemTable, flushing,
                             flushLocal, applied >>
  /\ UNCHANGED << manifestVars, sstFiles, walFiles, currentLogFile, sequenceId,
                  compVars, clock, otherVars, crashes, faults >>

\* WAL.checkpoint: the handle is closed; every segment but the current one is
\* unlinked.
CheckpointUnlink ==
  /\ flushPc = "ckpt_unlink"
  /\ fileHandle = "closed"
  /\ walFiles' = MapRemoveAll(walFiles, (DOMAIN walFiles) \ {currentLogFile})
  /\ flushPc' = "ckpt_rotate"
  /\ UNCHANGED << initialized, activeMemTable, immutableMemTable, sstables, flushing,
                  flushLocal, manifestVars, sstFiles, currentLogFile, fileHandle,
                  sequenceId, pendingWrites, batches, compVars, clock, otherVars,
                  histVars, crashes, faults >>

\* WAL.checkpoint: rotateLog names a new segment and it is opened; doFlush
\* drops the immutable MemTable and triggerFlush's finally clears the flag.
CheckpointRotate ==
  /\ flushPc = "ckpt_rotate"
  /\ clock' = clock + 1
  /\ currentLogFile' = clock + 1
  /\ walFiles' = MapPut(walFiles, clock + 1, << >>)
  /\ fileHandle' = "open"
  /\ immutableMemTable' = << >>
  /\ flushing' = FALSE
  /\ flushPc' = "idle"
  /\ flushLocal' = NoFlushLocal
  /\ UNCHANGED << initialized, activeMemTable, sstables, manifestVars,
                  sstFiles, sequenceId, pendingWrites, batches, compVars, otherVars,
                  histVars, crashes, faults >>

\* ------------------------------------------------------------- compaction
\* MergeIterator.iterate over the readers in list order with tombstones left
\* out: of the entries of one key the one of the first source wins, and it is
\* dropped when it is a tombstone.
RECURSIVE FirstWith(_, _)
FirstWith(sources, k) ==
  IF k \in DOMAIN Head(sources) THEN Head(sources)[k] ELSE FirstWith(Tail(sources), k)

MergeSources(sources) ==
  LET keys == UNION { DOMAIN sources[i] : i \in 1..Len(sources) }
      live == { k \in keys : ~FirstWith(sources, k).deleted }
  IN [k \in live |-> [FirstWith(sources, k) EXCEPT !.deleted = FALSE]]

\* ---------------------------------------------------------- MergeIterator
\* A comparator that orders equal keys by descending source index.
CompareLastSourceFirst(a, b) ==
  IF a.key # b.key THEN a.key - b.key ELSE b.sourceIndex - a.sourceIndex

\* MergeIterator.compareHeapEntries: by key, then by source index.
compareHeapEntries(a, b) ==
  IF a.key # b.key THEN a.key - b.key ELSE a.sourceIndex - b.sourceIndex

\* MinHeap.peek and MinHeap.extractMin: the least entry under the comparator.
extractMin(heap) == CHOOSE a \in heap : \A b \in heap : compareHeapEntries(a, b) <= 0

\* MergeIterator.advanceSource: the next entry of source i, if it has one,
\* goes into the heap.  m holds the sources, the position of each, the heap
\* and the pairs yielded so far.
advanceSource(m, i) ==
  IF m.index[i] > Len(m.sources[i]) THEN m
  ELSE LET entry == m.sources[i][m.index[i]]
       IN [m EXCEPT !.heap = @ \cup {[key |-> entry.key, value |-> entry.value,
                                      deleted |-> entry.deleted, sourceIndex |-> i]},
                    !.index[i] = @ + 1]

\* MergeIterator.initializeHeap: every source is advanced once, from source i on.
RECURSIVE initializeHeap(_, _)
initializeHeap(m, i) ==
  IF i > Len(m.sources) THEN m ELSE initializeHeap(advanceSource(m, i), i + 1)

\* iterate, the inner loop: the entries on top of the heap with the current
\* key are taken out and their sources advanced.
RECURSIVE SkipDuplicates(_, _)
SkipDuplicates(m, currentKey) ==
  IF m.heap # {} /\ extractMin(m.heap).key = currentKey
  THEN LET duplicate == extractMin(m.heap)
       IN SkipDuplicates(advanceSource([m EXCEPT !.heap = @ \ {duplicate}],
                                       duplicate.sourceIndex),
                         currentKey)
  ELSE m

\* iterate, the outer loop.
RECURSIVE IterateLoop(_, _)
IterateLoop(m, includeTombstones) ==
  IF m.heap = {} THEN m.out
  ELSE LET winner == extractMin(m.heap)
           skipped == SkipDuplicates([m EXCEPT !.heap = @ \ {winner}], winner.key)
           advanced == advanceSource(skipped, winner.sourceIndex)
       IN IterateLoop(IF winner.deleted /\ ~includeTombstones THEN advanced
                      ELSE [advanced EXCEPT !.out =
                              Append(@, [key |-> winner.key, value |-> winner.value])],
                      includeTombstones)

\* MergeIterator.iterate over sources, each a sequence of entries.
iterate(sources, includeTombstones) ==
  IterateLoop(initializeHeap([sources |-> sources,
                              index |-> [i \in 1..Len(sources) |-> 1],
                              heap |-> {}, out |-> << >>], 1),
              includeTombstones)

\* A MergeIterator run on its own, over sources that are each strictly
\* ascending by key.  A source holds every key at most once, as a put or as a
\* tombstone; the value of an entry is the index of its source.
MergeKeys == 1..MaxMergeKeys

SourceOf(i, keys, tombstones) ==
  LET ks == SortedSeq(keys)
  IN [j \in 1..Len(ks) |-> [key |-> ks[j], value |-> i, deleted |-> ks[j] \in tombstones]]

InitMerge ==
  /\ Constructed("sync")
  /\ NotStarted
  /\ Standalone
  /\ \E n \in 1..MaxSources :
       \E keys \in [1..n -> SUBSET MergeKeys] :
          \E tombstones \in [1..n -> SUBSET MergeKeys] :
             /\ \A i \in 1..n : tombstones[i] \subseteq keys[i]
             /\ mergeSources = [i \in 1..n |-> SourceOf(i, keys[i], tombstones[i])]
  /\ mergeConfig \in BOOLEAN
  /\ mergeOut = << >>
  /\ mergeDone = FALSE

\* new MergeIterator(sources, {includeTombstones}).iterate(), run to its end.
Iterate ==
  /\ ~mergeDone
  /\ mergeSources # << >>
  /\ mergeOut' = iterate(mergeSources, mergeConfig)
  /\ mergeDone' = TRUE
  /\ UNCHANGED << engineVars, manifestVars, sstFiles, walVars, compVars, clock, policy,
                  lifeVars, replVars, sideVars, notified, histVars, crashes, faults,
                  mergeSources, mergeConfig >>

NextMerge == Iterate

SpecMerge == InitMerge /\ [][NextMerge]_vars

\* ------------------------------------------------------------ range query
\* The entries of a MemTable or of an SSTable with keys in [startKey, endKey],
\* in key order (SortedMap.range, SSTableReader.iterate).
RangeEntries(data, startKey, endKey) ==
  LET keys == SortedSeq({ k \in DOMAIN data : k >= startKey /\ k <= endKey })
  IN [i \in 1..Len(keys) |-> [key |-> keys[i], value |-> data[keys[i]].value,
                               deleted |-> data[keys[i]].deleted]]

\* readKeyRange, the SSTable sources: the readers whose key range meets
\* [startKey, endKey], in list order.
RECURSIVE SSTableSources(_, _, _)
SSTableSources(list, startKey, endKey) ==
  IF list = << >> THEN << >>
  ELSE LET data == Head(list).data
           rest == SSTableSources(Tail(list), startKey, endKey)
       IN IF data = EmptyMap \/ SetMax(DOMAIN data) < startKey \/ SetMin(DOMAIN data) > endKey
          THEN rest
          ELSE << RangeEntries(data, startKey, endKey) >> \o rest

\* readKeyRange, the loop over the merged pairs: a pair is yielded, counted,
\* and the loop ends when the count has reached the limit.
RECURSIVE Yielded(_, _, _)
Yielded(pairs, count, limit) ==
  IF pairs = << >> THEN << >>
  ELSE << Head(pairs) >> \o
       (IF count + 1 >= limit THEN << >> ELSE Yielded(Tail(pairs), count + 1, limit))

\* LSMStore.readKeyRange with options.limit = limit.
readKeyRange(startKey, endKey, limit) ==
  IF startKey > endKey THEN << >>
  ELSE LET activeEntries == RangeEntries(activeMemTable.data, startKey, endKey)
           immutableEntries == IF immutableMemTable = << >> THEN << >>
                               ELSE RangeEntries(immutableMemTable[1].data, startKey, endKey)
           syncSources == (IF activeEntries # << >> THEN << activeEntries >> ELSE << >>)
                          \o (IF immutableEntries # << >> THEN << immutableEntries >> ELSE << >>)
           asyncSources == SSTableSources(sstables, startKey, endKey)
       IN Yielded(iterate(syncSources \o asyncSources, FALSE), 0, limit)

\* The finally of doCompaction, and the finally checkAndTrigger chained on the
\* promise of a run it started.
CompactionEnds ==
  /\ compacting' = FALSE
  /\ compRuns' = compRuns - 1
  /\ currentCompaction' = FALSE
  /\ UNCHANGED running

CompactionFailed ==
  /\ CompactionEnds
  /\ compPc' = "idle"
  /\ compLocal' = NoCompLocal

\* LSMStore.triggerCompaction throws unless initialize has created the
\* compaction manager; close leaves the manager in place.
ManagerCreated == initialized \/ closePc # "none"

\* No call has the flag set.
NeverInProgress == FALSE

\* CompactionManager.triggerCompaction, its test of this.compacting.
CompactionInProgress == compacting

\* LSMStore.triggerCompaction -> CompactionManager.triggerCompaction: a
\* compaction starts when none runs and the manifest lists two SSTables or
\* more; its promise is not kept in currentCompaction.
TriggerCompaction ==
  /\ ManagerCreated
  /\ ~CompactionInProgress
  /\ Len(manState.sstables) >= 2
  /\ StartCompaction(manState)
  /\ UNCHANGED << running, currentCompaction >>
  /\ UNCHANGED << engineVars, manifestVars, sstFiles, walVars, clock, otherVars,
                  histVars, crashes, faults >>

\* CompactionManager.triggerCompaction while a compaction runs: it logs that
\* it skips and returns null.
TriggerIgnored ==
  /\ ManagerCreated
  /\ CompactionInProgress
  /\ skips < MaxSkips
  /\ skips' = skips + 1
  /\ UNCHANGED << engineVars, manifestVars, sstFiles, walVars, compVars, clock, policy,
                  mergeVars, closePc, replVars, sideVars, notified, histVars, crashes, faults >>

\* CompactionManager.shouldCompact.
shouldCompact == ~compacting /\ Len(manState.sstables) >= CompactionThreshold

\* The timer of CompactionManager.start fires: checkAndTrigger starts a
\* compaction and keeps its promise in currentCompaction, or returns.
CheckAndTrigger ==
  /\ running
  /\ IF shouldCompact
     THEN /\ StartCompaction(manState)
          /\ currentCompaction' = TRUE
          /\ UNCHANGED running
     ELSE UNCHANGED compVars
  /\ UNCHANGED << engineVars, manifestVars, sstFiles, walVars, clock, otherVars,
                  histVars, crashes, faults >>

\* doCompaction: the readers are open, the next file number is read and the
\* merge has run over the readers.
CompactionMerge ==
  /\ compPc = "open"
  /\ IF FileNumbers(compLocal.metas) \subseteq DOMAIN sstFiles
     THEN LET merged == MergeSources([i \in 1..Len(compLocal.metas) |->
                                         sstFiles[compLocal.metas[i].fileNumber]])
          IN /\ compLocal' = [compLocal EXCEPT !.newFileNumber = manState.nextFileNumber,
                                               !.merged = merged]
             /\ compPc' = IF merged = EmptyMap THEN "empty" ELSE "build"
             /\ UNCHANGED << compacting, managerVars >>
     ELSE CompactionFailed
  /\ UNCHANGED << engineVars, manifestVars, sstFiles, walVars, clock, otherVars,
                  histVars, crashes, faults >>

\* doCompaction, nothing survived the merge: manifest.removeSSTables runs
\* applyEdit up to the first await of save().
CompactionEmpty ==
  /\ compPc = "empty"
  /\ LET st == applyEdit(manState, << >>, FileNumbers(compLocal.metas), 0)
     IN /\ manState' = st
        /\ compLocal' = [compLocal EXCEPT !.content = st]
  /\ compPc' = "man_write"
  /\ UNCHANGED << engineVars, manDisk, manTmp, sstFiles, walVars, compacting,
                  managerVars, clock,
                  otherVars, histVars, crashes, faults >>

\* doCompaction: writer.build() returns and manifest.applyEdit runs up to the
\* first await of save().
CompactionBuild ==
  /\ compPc = "build"
  /\ LET n == compLocal.newFileNumber
         st == applyEdit(manState, << Meta(n) >>, FileNumbers(compLocal.metas), n + 1)
     IN /\ sstFiles' = MapPut(sstFiles, n, compLocal.merged)
        /\ manState' = st
        /\ compLocal' = [compLocal EXCEPT !.content = st]
  /\ compPc' = "man_write"
  /\ UNCHANGED << engineVars, manDisk, manTmp, walVars, compacting, managerVars, clock,
                  otherVars,
                  histVars, crashes, faults >>

CompactionManifestWrite ==
  /\ compPc = "man_write"
  /\ manTmp' = << compLocal.content >>
  /\ compPc' = "man_rename"
  /\ UNCHANGED << engineVars, manState, manDisk, sstFiles, walVars, compacting,
                  managerVars,
                  compLocal, clock, otherVars, histVars, crashes, faults >>

CompactionManifestRename ==
  /\ compPc = "man_rename"
  /\ IF manTmp = << >>
     THEN /\ CompactionFailed
          /\ UNCHANGED << manDisk, manTmp >>
     ELSE /\ manDisk' = manTmp
          /\ manTmp' = << >>
          /\ compPc' = IF compLocal.merged = EmptyMap THEN "delete" ELSE "notify"
          /\ UNCHANGED << compacting, compLocal, managerVars >>
  /\ UNCHANGED << engineVars, manState, sstFiles, walVars, clock, otherVars, histVars,
                  crashes, faults >>

\* LSMStore.handleCompactionComplete, the loop over this.sstables: the readers
\* of the compacted files are closed, the others are kept in a new list.
CompactionNotify ==
  /\ compPc = "notify"
  /\ compLocal' = [compLocal EXCEPT !.newSSTables =
                      RemoveFiles(sstables, FileNumbers(compLocal.metas))]
  /\ compPc' = "install"
  /\ UNCHANGED << engineVars, manifestVars, sstFiles, walVars, compacting, managerVars,
                  clock, otherVars, histVars, crashes, faults >>

\* LSMStore.handleCompactionComplete, the rest: the new reader is open, the
\* new list is sorted and replaces this.sstables.
CompactionInstall ==
  /\ compPc = "install"
  /\ LET n == compLocal.newFileNumber
     IN sstables' = SortDesc(compLocal.newSSTables \o
                             << [fileNumber |-> n, data |-> sstFiles[n]] >>)
  /\ compPc' = "delete"
  /\ UNCHANGED << initialized, activeMemTable, immutableMemTable, flushing, flushPc,
                  flushLocal, manifestVars, sstFiles, walVars, compacting, compLocal,
                  managerVars,
                  clock, otherVars, histVars, crashes, faults >>

\* deleteOldFiles, then the finally of doCompaction.
CompactionDeleteOld ==
  /\ compPc = "delete"
  /\ sstFiles' = MapRemoveAll(sstFiles, FileNumbers(compLocal.metas))
  /\ CompactionEnds
  /\ compPc' = "idle"
  /\ compLocal' = NoCompLocal
  /\ UNCHANGED << engineVars, manifestVars, walVars, clock, otherVars,
                  histVars, crashes, faults >>

\* ------------------------------------------------------------------ close
\* LSMStore.close up to the await in CompactionManager.stop: running is
\* cleared and the timer with it.
CloseCall ==
  /\ initialized
  /\ closePc = "none"
  /\ closePc' = "stop"
  /\ running' = FALSE
  /\ UNCHANGED << engineVars, manifestVars, sstFiles, walVars, compacting, compPc,
                  compLocal, currentCompaction, compRuns, clock, policy, mergeVars,
                  skips, replVars, sideVars, notified, histVars, crashes, faults >>

\* stop() returns: currentCompaction was null or its promise has settled.
CloseStopped ==
  /\ closePc = "stop"
  /\ ~currentCompaction
  /\ closePc' = "flush"
  /\ UNCHANGED << engineVars, manifestVars, sstFiles, walVars, compVars, clock, policy,
                  mergeVars, skips, replVars, sideVars, notified, histVars, crashes, faults >>

\* flushPromise was null or has settled.
CloseFlushed ==
  /\ closePc = "flush"
  /\ ~flushing
  /\ closePc' = "readers"
  /\ UNCHANGED << engineVars, manifestVars, sstFiles, walVars, compVars, clock, policy,
                  mergeVars, skips, replVars, sideVars, notified, histVars, crashes, faults >>

\* The readers of this.sstables are closed, and wal.close runs up to its
\* await of fileHandle.close().
CloseReaders ==
  /\ closePc = "readers"
  /\ fileHandle' = IF fileHandle = "open" THEN HandleAfterClose ELSE fileHandle
  /\ closePc' = "wal"
  /\ UNCHANGED << engineVars, manifestVars, sstFiles, walFiles, currentLogFile,
                  sequenceId, pendingWrites, batches, compVars, clock, policy, mergeVars,
                  skips, replVars, sideVars, notified, histVars, crashes, faults >>

\* fileHandle.close() has returned: wal.close returns and close clears
\* this.initialized.
CloseReturns ==
  /\ closePc = "wal"
  /\ fileHandle # "closing"
  /\ initialized' = FALSE
  /\ closePc' = "closed"
  /\ UNCHANGED << activeMemTable, immutableMemTable, sstables, flushing, flushPc,
                  flushLocal, manifestVars, sstFiles, walVars, compVars, clock, policy,
                  mergeVars, skips, replVars, sideVars, notified, histVars, crashes, faults >>

\* Under group commit: the readers of this.sstables are closed and wal.close
\* runs up to its first await.  With writes pending that is flushBatch, whose
\* batch the call waits for; otherwise the timer is cleared and
\* fileHandle.close() is called.
CloseReadersGroup ==
  /\ closePc = "readers"
  /\ policy = "group"
  /\ IF pendingWrites # << >>
     THEN /\ closeBatch' = Head(pendingWrites)
          /\ StartBatch(ops, pendingWrites, "close")
          /\ closePc' = "wal_flush"
     ELSE /\ fileHandle' = IF fileHandle = "open" THEN HandleAfterClose ELSE fileHandle
          /\ closePc' = "wal"
          /\ UNCHANGED << engineVars, pendingWrites, batches, histVars, notified,
                          closeBatch >>
  /\ UNCHANGED << manifestVars, sstFiles, walFiles, currentLogFile, sequenceId, compVars,
                  clock, policy, mergeVars, skips, replVars, backupVars, rd, connVars, tableVars,
                  crashes, faults >>

\* wal.close after its await of flushBatch: when the batch was rejected the
\* error goes through wal.close and LSMStore.close, the timer stays set and
\* initialized stays true; otherwise the timer is cleared and
\* fileHandle.close() is called.
CloseWalFlushed ==
  /\ closePc = "wal_flush"
  /\ ops[closeBatch].status # "batch"
  /\ IF ops[closeBatch].status = "failed"
     THEN /\ closePc' = "failed"
          /\ UNCHANGED fileHandle
     ELSE /\ closePc' = "wal"
          /\ fileHandle' = IF fileHandle = "open" THEN HandleAfterClose ELSE fileHandle
  /\ closeBatch' = 0
  /\ UNCHANGED << engineVars, manifestVars, sstFiles, walFiles, currentLogFile,
                  sequenceId, pendingWrites, batches, compVars, clock, policy, mergeVars,
                  skips, replVars, backupVars, rd, connVars, tableVars, notified, histVars, crashes,
                  faults >>

\* put or delete on an engine whose initialized flag is clear:
\* ensureInitialized throws.
RejectedCall(kind, k) ==
  /\ ~initialized
  /\ Len(ops) < MaxOps
  /\ ops' = Append(ops, NewOp(kind, k, "rejected", 0))
  /\ UNCHANGED << engineVars, manifestVars, sstFiles, walVars, compVars, clock,
                  otherVars, applied, crashes, faults >>

\* ------------------------------------------------------------ replication
\* What no step of the replication changes.
storeVars == << engineVars, manifestVars, sstFiles, walVars, compVars, clock, policy,
               mergeVars, lifeVars, sideVars, notified, histVars, crashes, faults >>

\* ReplicationManager.connect up to the await in establishConnection: a new
\* socket starts to connect.  Called when the Primary starts and by the
\* reconnect timer; it returns at once when connected or connecting.
connect ==
  IF connected \/ connecting
  THEN UNCHANGED << connecting, socket >>
  ELSE /\ connecting' = TRUE
       /\ socket' = "opening"

\* The Primary calls connect() when it starts.
Connect ==
  /\ role = "primary"
  /\ socket = "none"
  /\ connect
  /\ UNCHANGED << role, connected, reconnectTimer, pendingAcks, outbox, acks, backupUp,
                  received, sent, storeVars >>

\* The socket's 'connect' event: the Backup listens and has no Primary
\* connection, handleConnection keeps the socket; connect() resolves.
ConnectSucceeds ==
  /\ socket = "opening"
  /\ backupUp
  /\ connected' = TRUE
  /\ connecting' = FALSE
  /\ socket' = "open"
  /\ UNCHANGED << role, reconnectTimer, pendingAcks, outbox, acks, backupUp, received,
                  sent, storeVars >>

\* The socket's 'error' event while connecting (nothing listens, or the
\* connect timeout): handleConnectionError runs with connecting still set, then
\* the promise rejects and the finally of connect() clears connecting.
ConnectFails ==
  /\ socket = "opening"
  /\ ~backupUp
  /\ connected' = FALSE
  /\ pendingAcks' = << >>
  /\ reconnectTimer' = scheduleReconnect
  /\ connecting' = FALSE
  /\ socket' = "closed"
  /\ UNCHANGED << role, outbox, acks, backupUp, received, sent, storeVars >>

\* The reconnect timer fires: it clears itself and calls connect().
TimerFires ==
  /\ reconnectTimer
  /\ reconnectTimer' = FALSE
  /\ connect
  /\ UNCHANGED << role, connected, pendingAcks, outbox, acks, backupUp, received, sent,
                  storeVars >>

\* The socket's 'close' event on an established connection:
\* handleConnectionClose.
ConnectionClosed ==
  /\ socket = "broken"
  /\ socket' = "closed"
  /\ IF connected
     THEN /\ connected' = FALSE
          /\ pendingAcks' = << >>
          /\ reconnectTimer' = scheduleReconnect
     ELSE UNCHANGED << connected, pendingAcks, reconnectTimer >>
  /\ UNCHANGED << role, connecting, outbox, acks, backupUp, received, sent, storeVars >>

\* ReplicationServer.handleReplicate: the Backup reads a Replicate frame,
\* hands the record to its entryHandler and writes the ack, OK or ERROR as the
\* handler returned or threw.
BackupReceives(status) ==
  /\ backupUp
  /\ outbox # << >>
  /\ received' = Append(received, Head(outbox))
  /\ outbox' = Tail(outbox)
  /\ acks' = Append(acks, [status |-> status, sequenceId |-> Head(outbox)])
  /\ UNCHANGED << role, connected, connecting, socket, reconnectTimer, pendingAcks,
                  backupUp, sent, storeVars >>

\* ReplicationManager.handleAck: the oldest pending record is settled.
AckArrives ==
  /\ socket = "open"
  /\ acks # << >>
  /\ acks' = Tail(acks)
  /\ pendingAcks' = IF pendingAcks = << >> THEN << >> ELSE Tail(pendingAcks)
  /\ UNCHANGED << role, connected, connecting, socket, reconnectTimer, outbox, backupUp,
                  received, sent, storeVars >>

\* The Backup process stops: its end of the connection goes with it, and so
\* do the frames not yet read.
BackupStops ==
  /\ backupUp
  /\ backupUp' = FALSE
  /\ socket' = IF socket = "open" THEN "broken" ELSE socket
  /\ outbox' = << >>
  /\ acks' = << >>
  /\ UNCHANGED << role, connected, connecting, reconnectTimer, pendingAcks, received,
                  sent, storeVars >>

\* The Backup process starts and listens.
BackupStarts ==
  /\ ~backupUp
  /\ backupUp' = TRUE
  /\ UNCHANGED << role, connected, connecting, socket, reconnectTimer, pendingAcks,
                  outbox, acks, received, sent, storeVars >>

\* ------------------------------------------ the Primary's receive buffer
\* A ReplicateAck frame is 14 bytes: length, opcode and status (the head, 6
\* bytes), then the sequence id (the tail, 8 bytes).  A chunk the socket hands
\* to the 'data' handler ends at a frame boundary or between head and tail.
AckHeadPiece(ack) == [part |-> "head", status |-> ack.status]

AckTailPiece(ack) == [part |-> "tail", sequenceId |-> ack.sequenceId]

\* What is left after a frame was cut out across a frame boundary: bytes of a
\* sequence id, which parseMessage reads as length 0 and opcode 0.
Misaligned == [part |-> "misaligned"]

\* The sequence id parseAck reads from the length, opcode and status of the
\* next frame and the first two bytes of its sequence id: none a record has.
Garbled == 0 - 1

\* ReplicationManager.handleData on the buffer pieces: parseMessage on the
\* front of the buffer until it returns null (the frame is incomplete) or
\* throws (unknown opcode); every ReplicateAck parsed goes to handleAck and is
\* cut from the buffer.  A head followed by the head of another frame and its
\* tail is 20 bytes, of which parseAck takes the first 14.
RECURSIVE handleData(_)
handleData(pieces) ==
  IF pieces = << >> THEN [handled |-> << >>, buffer |-> << >>, thrown |-> FALSE]
  ELSE IF Head(pieces).part # "head"
       THEN [handled |-> << >>, buffer |-> pieces, thrown |-> TRUE]
  ELSE IF Len(pieces) = 1
       THEN [handled |-> << >>, buffer |-> pieces, thrown |-> FALSE]
  ELSE IF pieces[2].part = "tail"
       THEN LET r == handleData(SubSeq(pieces, 3, Len(pieces)))
            IN [r EXCEPT !.handled = << [status |-> pieces[1].status,
                                         sequenceId |-> pieces[2].sequenceId] >> \o @]
  ELSE IF Len(pieces) = 2
       THEN [handled |-> << >>, buffer |-> pieces, thrown |-> FALSE]
  ELSE LET r == handleData(<< Misaligned >> \o SubSeq(pieces, 4, Len(pieces)))
       IN [r EXCEPT !.handled = << [status |-> pieces[1].status,
                                    sequenceId |-> Garbled] >> \o @]

\* ReplicationManager.handleAck for every ack of handled: the oldest pending
\* record is taken off the queue, if there is one.
RECURSIVE handleAcks(_, _)
handleAcks(pending, handled) ==
  IF handled = << >> \/ pending = << >> THEN pending
  ELSE handleAcks(Tail(pending), Tail(handled))

\* The first ack in flight has its head at the Primary already.
HeadArrived == acks # << >> /\ "cut" \in DOMAIN Head(acks)

\* The pieces of the first ack in flight that have not arrived.
RestOfAck ==
  IF HeadArrived THEN << AckTailPiece(Head(acks)) >>
  ELSE << AckHeadPiece(Head(acks)), AckTailPiece(Head(acks)) >>

\* The 'data' event with a chunk that ends after the head of an ack.
AckHeadArrives ==
  /\ socket = "open"
  /\ acks # << >>
  /\ ~HeadArrived
  /\ LET r == handleData(mgrBuffer \o << AckHeadPiece(Head(acks)) >>)
     IN /\ mgrBuffer' = r.buffer
        /\ pendingAcks' = handleAcks(pendingAcks, r.handled)
  /\ acks' = << [status |-> Head(acks).status, sequenceId |-> Head(acks).sequenceId,
                 cut |-> TRUE] >> \o Tail(acks)
  /\ UNCHANGED << role, connected, connecting, socket, reconnectTimer, outbox, backupUp,
                  received, sent, engineVars, manifestVars, sstFiles, walVars, compVars,
                  clock, policy, mergeVars, lifeVars, backupVars, rd, closeBatch,
                  primarySocket, srvSockets, tableVars, notified, histVars, crashes, faults >>

\* The 'data' event with a chunk that ends with the end of an ack.
AckRestArrives ==
  /\ socket = "open"
  /\ acks # << >>
  /\ LET r == handleData(mgrBuffer \o RestOfAck)
     IN /\ mgrBuffer' = r.buffer
        /\ pendingAcks' = handleAcks(pendingAcks, r.handled)
  /\ acks' = Tail(acks)
  /\ UNCHANGED << role, connected, connecting, socket, reconnectTimer, outbox, backupUp,
                  received, sent, engineVars, manifestVars, sstFiles, walVars, compVars,
                  clock, policy, mergeVars, lifeVars, backupVars, rd, closeBatch,
                  primarySocket, srvSockets, tableVars, notified, histVars, crashes, faults >>

\* ------------------------------------------------- the Backup's connection
\* The frames of the replication protocol as parseMessage tells them apart:
\* a Replicate with its record's sequence id, a ReplicateAck, and a frame whose
\* opcode is neither.
ReplicateFrame(n) == [opcode |-> "REPLICATE", sequenceId |-> n]
AckFrame == [opcode |-> "REPLICATE_ACK", sequenceId |-> 0]
UnknownFrame == [opcode |-> "UNKNOWN", sequenceId |-> 0]
Opcodes == {"REPLICATE", "REPLICATE_ACK", "UNKNOWN"}

\* The number of Replicate frames of a sequence of frames.
RECURSIVE Replicates(_)
Replicates(frames) ==
  IF frames = << >> THEN 0
  ELSE Replicates(Tail(frames)) + (IF Head(frames).opcode = "REPLICATE" THEN 1 ELSE 0)

\* The chunk a peer sends with these opcodes: its Replicate frames carry the
\* sequence ids that follow the ones already sent.
ChunkOf(opcodes) ==
  [i \in 1..Len(opcodes) |->
     IF opcodes[i] = "REPLICATE"
     THEN ReplicateFrame(Replicates(framesIn)
                         + Cardinality({j \in 1..i : opcodes[j] = "REPLICATE"}))
     ELSE IF opcodes[i] = "REPLICATE_ACK" THEN AckFrame ELSE UnknownFrame]

\* ReplicationServer.processBuffer from frame i on: parseMessage throws on an
\* unknown opcode; a Replicate goes to handleReplicate, which hands the record
\* to the entryHandler and writes the ack, OK or ERROR as the handler returned
\* or threw (outcome[i]); any other frame is skipped.
RECURSIVE processBuffer(_, _, _, _)
processBuffer(buffer, outcome, i, done) ==
  IF i > Len(buffer) THEN [done EXCEPT !.offset = i - 1]
  ELSE IF buffer[i].opcode = "UNKNOWN" THEN [done EXCEPT !.thrown = TRUE]
  ELSE IF buffer[i].opcode = "REPLICATE"
  THEN processBuffer(buffer, outcome, i + 1,
         [done EXCEPT
            !.handled = Append(@, buffer[i].sequenceId),
            !.written = Append(@, [status |-> outcome[i],
                                   sequenceId |-> buffer[i].sequenceId])])
  ELSE processBuffer(buffer, outcome, i + 1, done)

\* The 'data' handler of handleConnection, with the socket paused while it
\* runs: the chunk joins the buffer, processBuffer runs over the whole buffer,
\* and the buffer becomes what processBuffer left, unless it threw: then the
\* catch logs the error and the buffer stays as it was after the concat.
\* Chunks end at frame boundaries.
DataArrives(opcodes, outcome) ==
  /\ role = "backup"
  /\ backupUp
  /\ Len(framesIn) + Len(opcodes) <= MaxFrames
  /\ LET chunk == ChunkOf(opcodes)
         buffer == srvBuffer \o chunk
         r == processBuffer(buffer, outcome, 1,
                [handled |-> << >>, written |-> << >>, offset |-> 0, thrown |-> FALSE])
     IN /\ srvBuffer' = IF r.thrown THEN buffer
                        ELSE SubSeq(buffer, r.offset + 1, Len(buffer))
        /\ received' = received \o r.handled
        /\ acks' = acks \o r.written
        /\ framesIn' = framesIn \o chunk
  /\ UNCHANGED << role, connected, connecting, socket, reconnectTimer, pendingAcks,
                  outbox, backupUp, sent, rd, closeBatch, connVars, tableVars, engineVars, manifestVars, sstFiles, walVars,
                  compVars, clock, policy, mergeVars, lifeVars, notified, histVars,
                  crashes, faults >>

\* The Backup alone: a peer is connected and sends chunks of up to MaxChunk
\* frames; nothing reads the acks, so acks holds every ack the Backup wrote.
InitBackup ==
  /\ NoMerge
  /\ NotStarted
  /\ Constructed("sync")
  /\ role = "backup"
  /\ backupUp = TRUE
  /\ NoTraffic

NextBackup ==
  \E n \in 1..MaxChunk :
     \E opcodes \in [1..n -> Opcodes], outcome \in [1..MaxFrames -> {"OK", "ERROR"}] :
        DataArrives(opcodes, outcome)

SpecBackup == InitBackup /\ [][NextBackup]_vars

\* --------------------------------------------- the Backup's primary socket
\* The sockets the Backup's server has been handed, in the order of their
\* 'connection' events.  A socket is "active" from the moment handleConnection
\* took it as the primary socket until it is destroyed; "destroyed" once its
\* 'error' was emitted, with its 'close' still to come (net.Socket emits
\* 'error' on the next tick after the destroy and 'close' from the callback of
\* the handle's close, which runs after the events already polled); "closed"
\* after its 'close'; "refused" when handleConnection destroyed it before it
\* registered a handler.
ActiveSockets == {s \in 1..Len(srvSockets) : srvSockets[s] = "active"}

\* What the events of the server's sockets leave alone.
\* What the steps of the components on their own leave alone.
treeRest == << connVars, replVars, backupVars, rd, closeBatch, engineVars,
              manifestVars, sstFiles, walVars, compVars, clock, policy, mergeVars,
              lifeVars, notified, histVars, crashes, faults >>

serverRest == << mgrBuffer, tableVars, replVars, backupVars, rd, closeBatch, engineVars,
                manifestVars, sstFiles, walVars, compVars, clock, policy, mergeVars,
                lifeVars, notified, histVars, crashes, faults >>

\* ReplicationServer.handleConnection: the 'connection' event of the server.
handleConnection ==
  /\ role = "backup"
  /\ backupUp
  /\ Len(srvSockets) < MaxSockets
  /\ IF primarySocket # 0
     THEN /\ srvSockets' = Append(srvSockets, "refused")
          /\ UNCHANGED primarySocket
     ELSE /\ srvSockets' = Append(srvSockets, "active")
          /\ primarySocket' = Len(srvSockets) + 1
  /\ UNCHANGED serverRest

\* The 'error' handler handleConnection registered on socket s.
SocketError(s) ==
  /\ s \in ActiveSockets
  /\ primarySocket' = 0
  /\ srvSockets' = [srvSockets EXCEPT ![s] = "destroyed"]
  /\ UNCHANGED serverRest

\* The 'close' handler handleConnection registered on socket s: after an
\* error, or when the peer ended the connection.
SocketClose(s) ==
  /\ s \in 1..Len(srvSockets)
  /\ srvSockets[s] \in {"active", "destroyed"}
  /\ primarySocket' = 0
  /\ srvSockets' = [srvSockets EXCEPT ![s] = "closed"]
  /\ UNCHANGED serverRest

\* The 'data' handler of an active socket with a chunk of one Replicate frame
\* which the entryHandler accepts.
SocketData(s) ==
  /\ s \in ActiveSockets
  /\ DataArrives(<< "REPLICATE" >>, [i \in 1..MaxFrames |-> "OK"])

\* The Backup's server with the connections that come and go.
NextServer ==
  \/ handleConnection
  \/ \E s \in 1..MaxSockets : SocketError(s)
  \/ \E s \in 1..MaxSockets : SocketClose(s)
  \/ \E s \in 1..MaxSockets : SocketData(s)

SpecServer == InitBackup /\ [][NextServer]_vars

\* ------------------------------------------------------ the order of keys
\* Keys as strings: sequences of UTF-16 code units, here of the letters A, B,
\* a and b.
CodeUnits == {65, 66, 97, 98}
StringKeys == UNION { [1..n -> CodeUnits] : n \in 1..MaxKeyLen }

\* The order of two sequences of numbers by their first difference, a proper
\* prefix first.
RECURSIVE LexLess(_, _)
LexLess(a, b) ==
  IF b = << >> THEN FALSE
  ELSE IF a = << >> THEN TRUE
  ELSE IF Head(a) # Head(b) THEN Head(a) < Head(b)
  ELSE LexLess(Tail(a), Tail(b))

\* a < b on strings, as the SSTable writer and reader compare keys: by code
\* units.
CodeUnitLess(a, b) == LexLess(a, b)

\* The letter of a code unit whatever its case, and whether it is upper case.
Letter(u) == u % 32
IsUpper(u) == u < 97

\* String.prototype.localeCompare with the default collation, as SortedMap
\* and MergeIterator compare keys: the letters decide first, whatever their
\* case; among strings of the same letters the first difference of case
\* decides, lower case first.
localeCompare(a, b) ==
  LET la == [i \in 1..Len(a) |-> Letter(a[i])]
      lb == [i \in 1..Len(b) |-> Letter(b[i])]
      ca == [i \in 1..Len(a) |-> IF IsUpper(a[i]) THEN 1 ELSE 0]
      cb == [i \in 1..Len(b) |-> IF IsUpper(b[i]) THEN 1 ELSE 0]
  IN IF LexLess(la, lb) THEN 0 - 1
     ELSE IF LexLess(lb, la) THEN 1
     ELSE IF LexLess(ca, cb) THEN 0 - 1
     ELSE IF LexLess(cb, ca) THEN 1
     ELSE 0

\* SortedMap.set on the keys in iteration order: a key that compares equal to
\* one in the tree updates that node; any other key becomes a node after the
\* keys that compare lower.
SortedMapSet(tree, key) ==
  IF \E i \in 1..Len(tree) : localeCompare(key, tree[i]) = 0 THEN tree
  ELSE LET n == Cardinality({i \in 1..Len(tree) : localeCompare(tree[i], key) < 0})
       IN SubSeq(tree, 1, n) \o << key >> \o SubSeq(tree, n + 1, Len(tree))

\* SSTableWriter.add for every key of keys in turn: it throws on a key that
\* is <= the key added before it.
WriterThrows(keys) ==
  \E i \in 2..Len(keys) : ~CodeUnitLess(keys[i - 1], keys[i])

\* MergeIterator.compareHeapEntries on the heads of sources i and j.
HeadCompare(sources, i, j) ==
  LET keyCompare == localeCompare(Head(sources[i]), Head(sources[j]))
  IN IF keyCompare # 0 THEN keyCompare ELSE i - j

\* The top of the heap that holds the heads of the sources in S.
HeapTop(sources, S) ==
  CHOOSE i \in S : \A j \in S \ {i} : HeadCompare(sources, i, j) < 0

\* The inner loop of MergeIterator.iterate: while the top of the heap has the
\* key of the winner, that entry is dropped and its source advanced.
RECURSIVE DropDuplicates(_, _)
DropDuplicates(sources, winner) ==
  LET others == {i \in 1..Len(sources) : i # winner /\ sources[i] # << >>}
  IN IF others = {} THEN sources
     ELSE LET top == HeapTop(sources, others)
          IN IF Head(sources[top]) = Head(sources[winner])
             THEN DropDuplicates([sources EXCEPT ![top] = Tail(@)], winner)
             ELSE sources

\* MergeIterator.iterate over sources of keys: the keys it yields.
RECURSIVE IterateKeys(_)
IterateKeys(sources) ==
  LET heads == {i \in 1..Len(sources) : sources[i] # << >>}
  IN IF heads = {} THEN << >>
     ELSE LET winner == HeapTop(sources, heads)
              rest == DropDuplicates(sources, winner)
          IN << Head(sources[winner]) >>
             \o IterateKeys([rest EXCEPT ![winner] = Tail(@)])

\* MemTable.put: the key is set in the SortedMap.
TreePut(key) ==
  /\ ~ordThrown
  /\ Len(ordTree) < MaxTreeKeys
  /\ ordTree' = SortedMapSet(ordTree, key)
  /\ UNCHANGED << ordTables, ordThrown >>
  /\ UNCHANGED << readerVars, treeRest >>

\* The flush of the MemTable: every entry of getAllSorted() goes to
\* SSTableWriter.add, and the SSTable is built unless add threw.
TreeFlush ==
  /\ ~ordThrown
  /\ ordTree # << >>
  /\ Len(ordTables) < MaxTables
  /\ IF WriterThrows(ordTree)
     THEN /\ ordThrown' = TRUE
          /\ UNCHANGED << ordTree, ordTables >>
     ELSE /\ ordTables' = << ordTree >> \o ordTables
          /\ ordTree' = << >>
          /\ UNCHANGED ordThrown
  /\ UNCHANGED << readerVars, treeRest >>

\* The compaction of the SSTables: every key the MergeIterator yields goes to
\* SSTableWriter.add, and the output replaces its inputs unless add threw.
TablesCompact ==
  /\ ~ordThrown
  /\ Len(ordTables) >= 2
  /\ LET merged == IterateKeys(ordTables)
     IN IF WriterThrows(merged)
        THEN /\ ordThrown' = TRUE
             /\ UNCHANGED ordTables
        ELSE /\ ordTables' = << merged >>
             /\ UNCHANGED ordThrown
  /\ UNCHANGED ordTree
  /\ UNCHANGED << readerVars, treeRest >>

NextOrder ==
  \/ \E key \in StringKeys : TreePut(key)
  \/ TreeFlush
  \/ TablesCompact

SpecOrder == Init /\ [][NextOrder]_vars

\* ------------------------------------------------------- the SSTable file
\* Keys of the letters a, b and e with an acute accent, the last of two bytes
\* in UTF-8; values are the empty string and "x".
ReadUnits == {97, 98, 233}
TableKeys == UNION { [1..n -> ReadUnits] : n \in 1..MaxKeyLen }
TableValues == << << >>, << 120 >> >>

\* Buffer.from(string, 'utf8') for code units below 2048.
RECURSIVE Utf8(_)
Utf8(str) ==
  IF str = << >> THEN << >>
  ELSE (IF Head(str) < 128 THEN << Head(str) >>
        ELSE << 192 + (Head(str) \div 64), 128 + (Head(str) % 64) >>) \o Utf8(Tail(str))

\* buffer.toString('utf8') on whole characters of one or two bytes.
RECURSIVE FromUtf8(_)
FromUtf8(bytes) ==
  IF bytes = << >> THEN << >>
  ELSE IF Head(bytes) < 128 THEN << Head(bytes) >> \o FromUtf8(Tail(bytes))
  ELSE IF Len(bytes) >= 2 /\ Head(bytes) >= 192 /\ Head(bytes) < 224
       THEN << (Head(bytes) - 192) * 64 + (bytes[2] - 128) >>
            \o FromUtf8(SubSeq(bytes, 3, Len(bytes)))
  ELSE << 65533 >> \o FromUtf8(Tail(bytes))

\* writeUInt16BE, writeUInt32BE and writeBigUInt64BE: n in width bytes.
RECURSIVE BytesBE(_, _)
BytesBE(n, width) ==
  IF width = 0 THEN << >> ELSE BytesBE(n \div 256, width - 1) \o << n % 256 >>

\* readUInt16BE, readUInt32BE and readBigUInt64BE.
RECURSIVE UIntBE(_)
UIntBE(bytes) ==
  IF bytes = << >> THEN 0
  ELSE UIntBE(SubSeq(bytes, 1, Len(bytes) - 1)) * 256 + bytes[Len(bytes)]

\* The longest read and the largest 32-bit integer: FileHandle.read takes its
\* length as a 32-bit integer and throws on one that is not.
MaxInt32 == 2147483647

\* SSTableSerializer.serializeEntry: key length, key, value length, value,
\* timestamp, deleted.
serializeTableEntry(entry) ==
  LET keyBuf == Utf8(entry.key)
      valueBuf == Utf8(entry.value)
  IN BytesBE(Len(keyBuf), 2) \o keyBuf \o BytesBE(Len(valueBuf), 4) \o valueBuf
     \o BytesBE(entry.timestamp, 8) \o << IF entry.deleted THEN 1 ELSE 0 >>

\* SSTableSerializer.deserializeEntry at the start of a buffer: the entry and
\* the bytes read; the reads past the end of the buffer throw.
deserializeTableEntry(buffer) ==
  IF Len(buffer) < 2 THEN [thrown |-> TRUE]
  ELSE LET keyLen == UIntBE(SubSeq(buffer, 1, 2))
       IN IF Len(buffer) < 2 + keyLen + 4 THEN [thrown |-> TRUE]
          ELSE LET valueLen == UIntBE(SubSeq(buffer, 2 + keyLen + 1, 2 + keyLen + 4))
                   at == 2 + keyLen + 4 + valueLen
               IN IF Len(buffer) < at + 9 THEN [thrown |-> TRUE]
                  ELSE [thrown |-> FALSE,
                        entry |-> [key |-> FromUtf8(SubSeq(buffer, 3, 2 + keyLen)),
                                   value |-> FromUtf8(SubSeq(buffer, 2 + keyLen + 5, at)),
                                   timestamp |-> UIntBE(SubSeq(buffer, at + 1, at + 8)),
                                   deleted |-> buffer[at + 9] = 1],
                        bytesRead |-> at + 9]

\* The data section of the entries, one after the other.
RECURSIVE DataSection(_)
DataSection(entries) ==
  IF entries = << >> THEN << >>
  ELSE serializeTableEntry(Head(entries)) \o DataSection(Tail(entries))

\* SSTableWriter.build: the data section, an index entry with the offset of
\* every entry whose position is a multiple of sparseIndexInterval, and the
\* metadata of the footer.
SSTableBuild(entries, sparseIndexInterval) ==
  LET indexed == {i \in 1..Len(entries) : (i - 1) % sparseIndexInterval = 0}
      nth(n) == CHOOSE i \in indexed : Cardinality({j \in indexed : j < i}) = n - 1
  IN [data |-> DataSection(entries),
      sparseIndex |-> [n \in 1..Cardinality(indexed) |->
                         [key |-> entries[nth(n)].key,
                          offset |-> Len(DataSection(SubSeq(entries, 1, nth(n) - 1)))]],
      dataOffset |-> 0,
      indexOffset |-> Len(DataSection(entries)),
      firstKey |-> entries[1].key,
      lastKey |-> entries[Len(entries)].key]

\* SSTableReader.readEntryAt: the value length is read from bytes 2 to 5 of
\* the entry, which hold the start of the key; a buffer of the size that
\* follows from it is filled from the file and handed to deserializeEntry.
readEntryAt(file, offset) ==
  LET headerBuf == SubSeq(file.data, offset + 1, offset + 6)
      keyLen == UIntBE(SubSeq(headerBuf, 1, 2))
      fixed == 2 + keyLen + 4 + 8 + 1
  IN IF headerBuf[3] >= 128 THEN [thrown |-> TRUE]
     ELSE LET valueLen == UIntBE(SubSeq(headerBuf, 3, 6))
          IN IF valueLen > MaxInt32 - fixed THEN [thrown |-> TRUE]
             ELSE LET entrySize == fixed + valueLen
                      last == IF Len(file.data) - offset < entrySize
                              THEN Len(file.data) ELSE offset + entrySize
                  IN deserializeTableEntry(SubSeq(file.data, offset + 1, last))

\* key <= other on strings.
CodeUnitLessEq(a, b) == a = b \/ CodeUnitLess(a, b)

\* SSTableReader.findStartOffset: the binary search for the last index entry
\* whose key is <= key.
RECURSIVE findStartOffset(_, _, _, _, _)
findStartOffset(key, sparseIndex, left, right, result) ==
  IF left > right THEN result
  ELSE LET mid == (left + right) \div 2
       IN IF CodeUnitLessEq(sparseIndex[mid].key, key)
          THEN findStartOffset(key, sparseIndex, mid + 1, right, sparseIndex[mid].offset)
          ELSE findStartOffset(key, sparseIndex, left, mid - 1, result)

\* The loop of SSTableReader.get from offset on.
RECURSIVE GetFrom(_, _, _)
GetFrom(file, key, offset) ==
  IF offset >= file.indexOffset THEN [thrown |-> FALSE, found |-> << >>]
  ELSE LET r == readEntryAt(file, offset)
       IN IF r.thrown THEN [thrown |-> TRUE, found |-> << >>]
          ELSE IF r.entry.key = key THEN [thrown |-> FALSE, found |-> << r.entry >>]
          ELSE IF CodeUnitLess(key, r.entry.key) THEN [thrown |-> FALSE, found |-> << >>]
          ELSE GetFrom(file, key, offset + r.bytesRead)

\* SSTableReader.get.
SSTableGet(file, key) ==
  IF ~(CodeUnitLessEq(file.firstKey, key) /\ CodeUnitLessEq(key, file.lastKey))
  THEN [thrown |-> FALSE, found |-> << >>]
  ELSE GetFrom(file, key,
               findStartOffset(key, file.sparseIndex, 1, Len(file.sparseIndex),
                               file.dataOffset))

\* The entries of a data section from its first byte to its last, each as
\* deserializeEntry reads it.
RECURSIVE ScanData(_)
ScanData(data) ==
  IF data = << >> THEN << >>
  ELSE LET r == deserializeTableEntry(data)
       IN << r.entry >> \o ScanData(SubSeq(data, r.bytesRead + 1, Len(data)))

\* What a scan of the data section finds for key.
ScanFor(data, key) ==
  LET all == ScanData(data)
      hits == {i \in 1..Len(all) : all[i].key = key}
  IN IF hits = {} THEN << >> ELSE << all[CHOOSE i \in hits : TRUE] >>

\* The keys of a set in ascending order of code units.
Ascending(S) ==
  CHOOSE seq \in [1..Cardinality(S) -> S] :
    \A i \in 1..(Cardinality(S) - 1) : CodeUnitLess(seq[i], seq[i + 1])

\* The entry lists a writer takes: strictly ascending keys, each with one of
\* the values or deleted (kind 0).
EntryLists ==
  UNION { { [i \in 1..Cardinality(S) |->
               [key |-> Ascending(S)[i],
                value |-> IF kind[Ascending(S)[i]] = 0 THEN << >>
                          ELSE TableValues[kind[Ascending(S)[i]]],
                timestamp |-> i,
                deleted |-> kind[Ascending(S)[i]] = 0]] :
              kind \in [S -> 0..Len(TableValues)] } :
          S \in {T \in SUBSET TableKeys : T # {} /\ Cardinality(T) <= MaxEntries} }

\* SSTableWriter.add for every entry of a list, then build.
TableBuild(entries, sparseIndexInterval) ==
  /\ tblFile = << >>
  /\ tblFile' = << SSTableBuild(entries, sparseIndexInterval) >>
  /\ UNCHANGED << tblRead, orderVars, treeRest >>

\* SSTableReader.get on the file.
TableGet(key) ==
  /\ tblFile # << >>
  /\ tblRead = << >>
  /\ tblRead' = << [key |-> key, out |-> SSTableGet(tblFile[1], key)] >>
  /\ UNCHANGED << tblFile, orderVars, treeRest >>

NextTable ==
  \/ \E entries \in EntryLists, interval \in 1..MaxInterval : TableBuild(entries, interval)
  \/ \E key \in TableKeys : TableGet(key)

SpecTable == Init /\ [][NextTable]_vars

\* ----------------------------------------------------------- group commit
\* LSMStore.put and LSMStore.delete with WAL.append under group commit: the
\* record gets the next sequence id and joins the pending writes; flushBatch
\* is called at once when BatchFlushLimit writes are pending.
WriteCallGroup(kind, k) ==
  /\ initialized
  /\ policy = "group"
  /\ Len(ops) < MaxOps
  /\ Cardinality(Unsettled) < MaxPending
  /\ sequenceId' = sequenceId + 1
  /\ LET opsNow == Append(ops, NewOp(kind, k, "pending", sequenceId))
         pend == Append(pendingWrites, Len(ops) + 1)
     IN IF Len(pend) >= BatchFlushLimit
        THEN StartBatch(opsNow, pend, "append")
        ELSE /\ ops' = opsNow
             /\ pendingWrites' = pend
             /\ UNCHANGED << batches, engineVars, applied, notified, fileHandle >>
  /\ UNCHANGED << sstFiles, manifestVars, walFiles, currentLogFile, compVars, clock,
                  quietVars, crashes, faults >>

\* The interval timer set by WAL.open calls flushBatch; WAL.close clears the
\* timer before it closes the file handle.
TimerFlush ==
  /\ initialized
  /\ policy = "group"
  /\ closePc \notin {"wal", "closed"}
  /\ pendingWrites # << >>
  /\ StartBatch(ops, pendingWrites, "timer")
  /\ UNCHANGED << sstFiles, manifestVars, walFiles, currentLogFile, sequenceId, compVars,
                  clock, quietVars, crashes, faults >>

\* flushBatch, the write loop: the write of an entry returns and the record is
\* in the current segment; the write of the next entry, or the fsync after the
\* last one, is issued, which throws when the handle has been closed meanwhile
\* or serializePayload rejects the next entry.
\* The batches are kept in the order their calls in flight were issued.
BatchWrite(b, placeholder) ==
  /\ b \in 1..Len(batches)
  /\ batches[b].written < Len(batches[b].entries)
  /\ \A c \in 1..(b - 1) : batches[c].written = Len(batches[c].entries)
  /\ LET id == batches[b].entries[batches[b].written + 1]
     IN walFiles' = [walFiles EXCEPT ![currentLogFile] =
                        Append(@, serializeEntry(LogRecord(id, ops[id].seq), placeholder))]
  /\ IF \/ HandleAfterReturn = "closed"
        \/ /\ batches[b].written + 1 < Len(batches[b].entries)
           /\ serializePayloadThrows(ops[batches[b].entries[batches[b].written + 2]])
     THEN SettleBatch(ops, batches[b], FALSE, RemoveAt(batches, b), HandleAfterReturn)
     ELSE /\ batches' = Append(RemoveAt(batches, b),
                               [batches[b] EXCEPT !.written = @ + 1])
          /\ fileHandle' = HandleAfterReturn
          /\ UNCHANGED << engineVars, histVars, notified >>
  /\ UNCHANGED << sstFiles, manifestVars, currentLogFile, sequenceId, pendingWrites,
                  compVars, clock, quietVars, crashes, faults >>

\* flushBatch: fileHandle.sync returns and every append of the batch resolves.
BatchSyncReturns(b) ==
  /\ b \in 1..Len(batches)
  /\ batches[b].written = Len(batches[b].entries)
  /\ SettleBatch(ops, batches[b], TRUE, RemoveAt(batches, b), HandleAfterReturn)
  /\ UNCHANGED << sstFiles, manifestVars, walFiles, currentLogFile, sequenceId,
                  pendingWrites, compVars, clock, quietVars, crashes, faults >>

\* flushBatch: fileHandle.sync fails and every append of the batch rejects.
BatchSyncFails(b) ==
  /\ b \in 1..Len(batches)
  /\ batches[b].written = Len(batches[b].entries)
  /\ faults < MaxFaults
  /\ faults' = faults + 1
  /\ SettleBatch(ops, batches[b], FALSE, RemoveAt(batches, b), HandleAfterReturn)
  /\ UNCHANGED << sstFiles, manifestVars, walFiles, currentLogFile, sequenceId,
                  pendingWrites, compVars, clock, quietVars, crashes >>

\* ------------------------------------------------------------------ crash
\* The process dies: what is in memory is gone, the files stay as they are.
\* A write whose call had not returned is neither completed nor failed.
Crash ==
  /\ initialized
  /\ crashes < MaxCrashes
  /\ crashes' = crashes + 1
  /\ initialized' = FALSE
  /\ activeMemTable' = NewMemTable
  /\ immutableMemTable' = << >>
  /\ sstables' = << >>
  /\ flushing' = FALSE
  /\ flushPc' = "idle"
  /\ flushLocal' = NoFlushLocal
  /\ manState' = EMPTY_MANIFEST_STATE
  /\ fileHandle' = "closed"
  /\ sequenceId' = 0
  /\ currentLogFile' = 0
  /\ pendingWrites' = << >>
  /\ batches' = << >>
  /\ compacting' = FALSE
  /\ compPc' = "idle"
  /\ compLocal' = NoCompLocal
  /\ running' = FALSE
  /\ currentCompaction' = FALSE
  /\ compRuns' = 0
  /\ ops' = [i \in 1..Len(ops) |->
               IF i \in Unsettled THEN [ops[i] EXCEPT !.status = "cut"] ELSE ops[i]]
  /\ UNCHANGED << manDisk, manTmp, sstFiles, walFiles, clock, otherVars, applied, faults >>

\* -------------------------------------------------------------------- get
\* The reader r, taken from this.sstables earlier, has been closed:
\* handleCompactionComplete closes the readers of the compacted files in its
\* loop and replaces this.sstables afterwards, and close closes every reader.
ReaderClosed(r) ==
  \/ r \notin Range(sstables)
  \/ compPc = "install" /\ r.fileNumber \in FileNumbers(compLocal.metas)
  \/ closePc \in {"wal", "closed"}

\* LSMStore.get, the loop over the snapshot up to its next await: a reader
\* whose key range does not hold the key is passed over, reader.get is called
\* on the first that does; isInRange throws on a closed reader.
RECURSIVE SearchFrom(_)
SearchFrom(r) ==
  IF r.pos > Len(r.snapshot) THEN [r EXCEPT !.status = "done", !.result = 0]
  ELSE IF ReaderClosed(r.snapshot[r.pos]) THEN [r EXCEPT !.status = "failed"]
  ELSE IF ~isInRange(r.snapshot[r.pos].data, r.key)
  THEN SearchFrom([r EXCEPT !.pos = @ + 1])
  ELSE [r EXCEPT !.status = "reading"]

\* LSMStore.get up to its first await: the MemTables answer at once, otherwise
\* the list of readers is copied and the search starts.  expected is what the
\* layers hold for the key at the call.
GetCall(k) ==
  /\ initialized
  /\ rd.status # "reading"
  /\ rd.count < MaxReads
  /\ LET call == [NoRead EXCEPT !.key = k, !.expected = Get(k), !.count = rd.count + 1]
     IN rd' = IF \/ k \in DOMAIN activeMemTable.data
                 \/ immutableMemTable # << >> /\ k \in DOMAIN immutableMemTable[1].data
              THEN [call EXCEPT !.status = "done", !.result = Get(k)]
              ELSE SearchFrom([call EXCEPT !.snapshot = sstables, !.pos = 1])
  /\ UNCHANGED << engineVars, manifestVars, sstFiles, walVars, compVars, clock, policy,
                  mergeVars, lifeVars, replVars, backupVars, closeBatch, connVars, tableVars, notified,
                  histVars,
                  crashes, faults >>

\* reader.get returns: its reads of the file fail when the reader has been
\* closed meanwhile; otherwise the entry found ends the call, and without one
\* the loop goes on.
GetReturns ==
  /\ rd.status = "reading"
  /\ LET reader == rd.snapshot[rd.pos]
     IN rd' = IF ReaderClosed(reader) THEN [rd EXCEPT !.status = "failed"]
              ELSE IF rd.key \in DOMAIN reader.data
              THEN [rd EXCEPT !.status = "done",
                              !.result = IF reader.data[rd.key].deleted THEN 0
                                         ELSE reader.data[rd.key].value]
              ELSE SearchFrom([rd EXCEPT !.pos = @ + 1])
  /\ UNCHANGED << engineVars, manifestVars, sstFiles, walVars, compVars, clock, policy,
                  mergeVars, lifeVars, replVars, backupVars, closeBatch, connVars, tableVars, notified,
                  histVars,
                  crashes, faults >>

\* ------------------------------------------------------------------- Spec
\* The engine under sync-every-write with flushes and compactions, in one run
\* of the process.
Next ==
  \/ Initialize
  \/ \E kind \in {"put", "delete"}, k \in Keys : WriteCallSync(kind, k)
  \/ \E id \in 1..MaxOps, placeholder \in PlaceholderBytes : WriteReturns(id, placeholder)
  \/ \E id \in 1..MaxOps : SyncReturns(id)
  \/ \E id \in 1..MaxOps : SyncFails(id)
  \/ FlushBuild
  \/ FlushBuildFails
  \/ FlushManifestWrite
  \/ FlushManifestRename
  \/ FlushOpenReader
  \/ CheckpointUnlink
  \/ CheckpointRotate
  \/ TriggerCompaction
  \/ CompactionMerge
  \/ CompactionEmpty
  \/ CompactionBuild
  \/ CompactionManifestWrite
  \/ CompactionManifestRename
  \/ CompactionNotify
  \/ CompactionInstall
  \/ CompactionDeleteOld

Spec == Init /\ [][Next]_vars

\* The engine under sync-every-write with no compaction, where the write of
\* MANIFEST.tmp can fail.
NextSave ==
  \/ Initialize
  \/ \E kind \in {"put", "delete"}, k \in Keys : WriteCallSync(kind, k)
  \/ \E id \in 1..MaxOps, placeholder \in PlaceholderBytes : WriteReturns(id, placeholder)
  \/ \E id \in 1..MaxOps : SyncReturns(id)
  \/ FlushBuild
  \/ FlushManifestWrite
  \/ FlushManifestWriteFails
  \/ FlushManifestRename
  \/ FlushOpenReader
  \/ CheckpointUnlink
  \/ CheckpointRotate

SpecSave == Init /\ [][NextSave]_vars

\* The engine under group commit from initialize to the end of close, with
\* no compaction.  The event loop runs every callback that is due: the
\* interval timer while it is set, the continuation of every file operation
\* and every step of a flush or of close that can go on.
NextShutdown ==
  \/ closePc = "none" /\ Initialize
  \/ \E kind \in {"put", "delete"}, k \in Keys :
        Len(ops) < MaxFileOps /\ WriteCallGroup(kind, k)
  \/ TimerFlush
  \/ \E b \in 1..MaxPending, placeholder \in PlaceholderBytes : BatchWrite(b, placeholder)
  \/ \E b \in 1..MaxPending : BatchSyncReturns(b)
  \/ \E b \in 1..MaxPending : BatchSyncFails(b)
  \/ FlushBuild
  \/ FlushManifestWrite
  \/ FlushManifestRename
  \/ FlushOpenReader
  \/ CheckpointUnlink
  \/ CheckpointRotate
  \/ CloseCall
  \/ CloseStopped
  \/ CloseFlushed
  \/ CloseReadersGroup
  \/ CloseWalFlushed
  \/ CloseReturns

EventLoop ==
  /\ WF_vars(TimerFlush)
  /\ WF_vars(\E b \in 1..MaxPending, placeholder \in PlaceholderBytes :
                BatchWrite(b, placeholder))
  /\ WF_vars(\E b \in 1..MaxPending : BatchSyncReturns(b))
  /\ WF_vars(FlushBuild)
  /\ WF_vars(FlushManifestWrite)
  /\ WF_vars(FlushManifestRename)
  /\ WF_vars(FlushOpenReader)
  /\ WF_vars(CheckpointUnlink)
  /\ WF_vars(CheckpointRotate)
  /\ WF_vars(CloseStopped)
  /\ WF_vars(CloseFlushed)
  /\ WF_vars(CloseReadersGroup)
  /\ WF_vars(CloseWalFlushed)
  /\ WF_vars(CloseReturns)

SpecShutdown == InitGroup /\ [][NextShutdown]_vars /\ EventLoop

\* The engine under sync-every-write across process deaths and restarts,
\* without compaction.
NextCrash ==
  \/ Initialize
  \/ \E kind \in {"put", "delete"}, k \in Keys : WriteCallSync(kind, k)
  \/ \E id \in 1..MaxOps, placeholder \in PlaceholderBytes : WriteReturns(id, placeholder)
  \/ \E id \in 1..MaxOps : SyncReturns(id)
  \/ \E id \in 1..MaxOps : SyncFails(id)
  \/ FlushBuild
  \/ FlushBuildFails
  \/ FlushManifestWrite
  \/ FlushManifestRename
  \/ FlushOpenReader
  \/ CheckpointUnlink
  \/ CheckpointRotate
  \/ Crash

SpecCrash == Init /\ [][NextCrash]_vars

\* The engine under group commit, without compaction.
NextGroup ==
  \/ Initialize
  \/ \E kind \in {"put", "delete"}, k \in Keys : WriteCallGroup(kind, k)
  \/ TimerFlush
  \/ \E b \in 1..MaxPending, placeholder \in PlaceholderBytes : BatchWrite(b, placeholder)
  \/ \E b \in 1..MaxPending : BatchSyncReturns(b)
  \/ \E b \in 1..MaxPending : BatchSyncFails(b)
  \/ FlushBuild
  \/ FlushBuildFails
  \/ FlushManifestWrite
  \/ FlushManifestRename
  \/ FlushOpenReader
  \/ CheckpointUnlink
  \/ CheckpointRotate
  \/ Crash

SpecGroup == InitGroup /\ [][NextGroup]_vars

\* Puts of values and of the empty value under either sync policy, with no
\* fault, no close and no process death.
InitValues == Start("sync") \/ Start("group")

NextValues ==
  \/ Initialize
  \/ \E kind \in {"put", "putEmpty"}, k \in Keys :
        Len(ops) < MaxValueOps /\ WriteCallSync(kind, k)
  \/ \E id \in 1..MaxOps, placeholder \in PlaceholderBytes : WriteReturns(id, placeholder)
  \/ \E id \in 1..MaxOps : SyncReturns(id)
  \/ \E kind \in {"put", "putEmpty"}, k \in Keys :
        Len(ops) < MaxValueOps /\ WriteCallGroup(kind, k)
  \/ TimerFlush
  \/ \E b \in 1..MaxPending, placeholder \in PlaceholderBytes : BatchWrite(b, placeholder)
  \/ \E b \in 1..MaxPending : BatchSyncReturns(b)
  \/ FlushBuild
  \/ FlushManifestWrite
  \/ FlushManifestRename
  \/ FlushOpenReader
  \/ CheckpointUnlink
  \/ CheckpointRotate

SpecValues == InitValues /\ [][NextValues]_vars

\* Group commit in one life of the process.
NextCommit ==
  \/ Initialize
  \/ \E kind \in {"put", "delete"}, k \in Keys : WriteCallGroup(kind, k)
  \/ TimerFlush
  \/ \E b \in 1..MaxPending, placeholder \in PlaceholderBytes : BatchWrite(b, placeholder)
  \/ \E b \in 1..MaxPending : BatchSyncReturns(b)
  \/ \E b \in 1..MaxPending : BatchSyncFails(b)
  \/ FlushBuild
  \/ FlushBuildFails
  \/ FlushManifestWrite
  \/ FlushManifestRename
  \/ FlushOpenReader
  \/ CheckpointUnlink
  \/ CheckpointRotate

SpecCommit == InitGroup /\ [][NextCommit]_vars

\* A log segment left by an earlier process, its last record damaged.
\* The entry the i-th record of a segment holds.
SegmentEntry(i, operation, k) ==
  [sequenceId |-> i - 1, operation |-> operation, key |-> k,
   value |-> IF operation = "put" THEN i ELSE 0, op |-> 0]

\* The segments of n records an engine can have written.
Segments(n) ==
  { [i \in 1..n |-> serializeEntry(SegmentEntry(i, c[i][1], c[i][2]), c[i][3])] :
      c \in [1..n -> {"put", "delete"} \X Keys \X PlaceholderBytes] }

\* The damage to a record: one byte of its checksum flipped, the file cut
\* short inside it, its length field declaring more than the file holds.
Damaged(frame, damage) ==
  IF damage = "flip" THEN [frame EXCEPT !.checksum = (@ + 1) % CrcMod]
  ELSE IF damage = "short" THEN [frame EXCEPT !.bytes = @ - 1]
  ELSE [frame EXCEPT !.length = @ + 1]

DamagedTail(frames, damage) ==
  [frames EXCEPT ![Len(frames)] = Damaged(@, damage)]

\* The records before the last one.
Front(frames) == SubSeq(frames, 1, Len(frames) - 1)

\* An engine constructed on a data directory that holds one such segment.
InitReplay ==
  /\ \E n \in 1..MaxRecords, damage \in {"flip", "short", "length"} :
       \E frames \in Segments(n) : walFiles = MapPut(EmptyMap, 1, DamagedTail(frames, damage))
  /\ NoMerge
  /\ NotStarted
  /\ Standalone
  /\ initialized = FALSE
  /\ activeMemTable = NewMemTable
  /\ immutableMemTable = << >>
  /\ sstables = << >>
  /\ flushing = FALSE
  /\ flushPc = "idle"
  /\ flushLocal = NoFlushLocal
  /\ manState = EMPTY_MANIFEST_STATE
  /\ manDisk = << >>
  /\ manTmp = << >>
  /\ sstFiles = EmptyMap
  /\ currentLogFile = 0
  /\ fileHandle = "closed"
  /\ sequenceId = 0
  /\ pendingWrites = << >>
  /\ batches = << >>
  /\ compacting = FALSE
  /\ compPc = "idle"
  /\ compLocal = NoCompLocal
  /\ clock = 1
  /\ policy = "sync"
  /\ ops = << >>
  /\ applied = << >>
  /\ notified = << >>
  /\ crashes = 0
  /\ faults = 0

NextReplay == Initialize

SpecReplay == InitReplay /\ [][NextReplay]_vars

\* An engine constructed on a data directory that holds two segments: the
\* records of one run of sequence ids, the first n of them in segment 1 with
\* the last of these damaged, the others in segment 2.
InitSegments ==
  /\ \E n \in 1..(MaxRecords - 1), m \in 1..(MaxRecords - 1),
        damage \in {"flip", "short", "length"} :
       /\ n + m <= MaxRecords
       /\ \E frames \in Segments(n + m) :
             walFiles = MapPut(MapPut(EmptyMap, 1, DamagedTail(SubSeq(frames, 1, n), damage)),
                               2, SubSeq(frames, n + 1, n + m))
  /\ NoMerge
  /\ NotStarted
  /\ Standalone
  /\ initialized = FALSE
  /\ activeMemTable = NewMemTable
  /\ immutableMemTable = << >>
  /\ sstables = << >>
  /\ flushing = FALSE
  /\ flushPc = "idle"
  /\ flushLocal = NoFlushLocal
  /\ manState = EMPTY_MANIFEST_STATE
  /\ manDisk = << >>
  /\ manTmp = << >>
  /\ sstFiles = EmptyMap
  /\ currentLogFile = 0
  /\ fileHandle = "closed"
  /\ sequenceId = 0
  /\ pendingWrites = << >>
  /\ batches = << >>
  /\ compacting = FALSE
  /\ compPc = "idle"
  /\ compLocal = NoCompLocal
  /\ clock = 2
  /\ policy = "sync"
  /\ ops = << >>
  /\ applied = << >>
  /\ notified = << >>
  /\ crashes = 0
  /\ faults = 0

NextSegments == Initialize

SpecSegments == InitSegments /\ [][NextSegments]_vars

\* ---------------------------------------------------------------- history
\* The last write of key k in the order the writes completed: << >> when no
\* write of k has completed.
RECURSIVE LastApplied(_, _)
LastApplied(seq, k) ==
  IF seq = << >> THEN << >>
  ELSE IF ops[seq[Len(seq)]].key = k THEN << seq[Len(seq)] >>
       ELSE LastApplied(SubSeq(seq, 1, Len(seq) - 1), k)

\* What get(k) has to return: the value of the last completed write of k,
\* null (0) when that is a delete or there is none.
Expected(k) ==
  LET l == LastApplied(applied, k)
  IN IF l = << >> THEN 0 ELSE IF ops[l[1]].kind = "put" THEN l[1] ELSE 0

\* The place of a write in the order of completion: 0 when it has not
\* completed.
Pos(id) ==
  IF \E i \in 1..Len(applied) : applied[i] = id
  THEN CHOOSE i \in 1..Len(applied) : applied[i] = id
  ELSE 0

\* The write id is held by a layer get reads: a MemTable or an open reader.
InLayers(id) ==
  \/ \E k \in DOMAIN activeMemTable.data : activeMemTable.data[k].op = id
  \/ /\ immutableMemTable # << >>
     /\ \E k \in DOMAIN immutableMemTable[1].data : immutableMemTable[1].data[k].op = id
  \/ \E i \in 1..Len(sstables) :
       \E k \in DOMAIN sstables[i].data : sstables[i].data[k].op = id

\* What the SSTables listed in the file MANIFEST hold for key k, looked up as
\* get looks up the readers.
DiskEntry(k) ==
  IF manDisk = << >> THEN << >>
  ELSE SSTableLookup(LoadReaders(manDisk[1].sstables), k)

\* The log record rec is reflected in the SSTables of the persisted manifest:
\* they hold for its key the entry of its write or of a write that completed
\* later, or hold nothing for the key when such a write was a delete.
Reflected(rec) ==
  LET e == DiskEntry(rec.key)
  IN IF e # << >> THEN Pos(e[1].op) >= Pos(rec.op)
     ELSE \E j \in 1..Len(applied) :
            /\ j >= Pos(rec.op)
            /\ ops[applied[j]].key = rec.key
            /\ ops[applied[j]].kind = "delete"

\* C1: with no crash and no I/O failure, get(k) returns the value of the most
\* recent completed write of k (null after a delete or with no write), whatever
\* the interleaving of writes, flushes and compactions.
C1_GetReturnsLatest ==
  (initialized /\ crashes = 0 /\ faults = 0) =>
     \A k \in Keys : Get(k) = Expected(k)

\* C2: under sync-every-write, the engine initialised after a crash shows for
\* every key the result of the last write of the key that completed before the
\* crash; the only other entry a key may show is one of a write whose call was
\* still running when the process died.  No I/O failure is injected.
C2_RestartShowsCompletedWrites ==
  [][(~initialized /\ initialized' /\ crashes > 0 /\ faults = 0) =>
       \A k \in Keys :
          \/ Get(k)' = Expected(k)
          \/ /\ FindEntry(k)' # << >>
             /\ ops[FindEntry(k)'[1].op].status = "cut"]_vars

\* C3: on a running engine a write is visible if and only if its append has
\* resolved: a write whose append is outstanding or has rejected is in no layer
\* get reads, and once a put has returned get finds for its key the entry of
\* that put or of a write that completed later.
C3_VisibleIffAppendResolved ==
  (initialized /\ crashes = 0 /\ faults = 0) =>
     \A id \in 1..Len(ops) :
        /\ ops[id].status # "done" => ~InLayers(id)
        /\ (ops[id].status = "done" /\ ops[id].kind = "put") =>
             LET e == FindEntry(ops[id].key)
             IN IF e # << >> THEN Pos(e[1].op) >= Pos(id)
                ELSE \E j \in 1..Len(applied) :
                       /\ j > Pos(id)
                       /\ ops[applied[j]].key = ops[id].key
                       /\ ops[applied[j]].kind = "delete"

\* C4: a put or delete issued while a flush is in progress (build, manifest
\* edit, reader open or WAL checkpoint) is accepted: the call is not rejected.
C4_WriteDuringFlushAccepted ==
  [][(flushing /\ Len(ops') > Len(ops)) => ops'[Len(ops')].status # "failed"]_vars

\* C5: whenever a checkpoint deletes a log segment, every record of a completed
\* write in that segment is reflected in an SSTable the persisted manifest
\* lists, also on runs where a flush failed; stated for an engine that has not
\* been restarted and a log that holds the records of completed writes only.
C5_CheckpointDeletesOnlyFlushed ==
  [][(crashes = 0 /\ \A id \in 1..Len(ops) : ops[id].status = "done") =>
       \A f \in (DOMAIN walFiles) \ (DOMAIN walFiles') :
          \A i \in 1..Len(walFiles[f]) : Reflected(walFiles[f][i])]_vars

\* C6: for every key, get returns the same value before and after the engine
\* installs the result of a compaction, also when writes and a flush completed
\* while the compaction ran; stated for an engine where get returns the latest
\* completed write of every key before the installation.
C6_CompactionPreservesGet ==
  [][(compPc = "install" /\ compPc' = "delete" /\ crashes = 0 /\ faults = 0
        /\ \A k \in Keys : Get(k) = Expected(k)) =>
       \A k \in Keys : Get(k)' = Get(k)]_vars

\* The records recs are in strictly increasing order of sequence id.
InSequenceOrder(recs) ==
  \A i, j \in 1..Len(recs) : i < j => recs[i].sequenceId < recs[j].sequenceId

\* C8: every newly assigned sequence id is greater than every sequence id still
\* present in a segment of the log, across appends, checkpoints and re-opens;
\* stated for a log whose records are in sequence order so far.
C8_SequenceIdsIncrease ==
  [][(Len(ops') > Len(ops) /\ InSequenceOrder(diskRecords)) =>
       \A f \in DOMAIN walFiles :
          \A i \in 1..Len(walFiles[f]) :
             walFiles[f][i].sequenceId < ops'[Len(ops')].seq]_vars

\* What get will return once initialize has run on the data directory as it
\* is: the replayed MemTable first, then the readers of the manifest's SSTables.
RestartGet(k) ==
  LET mt == ReplayedMemTable
      e == IF k \in DOMAIN mt.data THEN << mt.data[k] >>
           ELSE SSTableLookup(LoadReaders(LoadedManifest.sstables), k)
  IN IF e = << >> THEN 0 ELSE IF e[1].deleted THEN 0 ELSE e[1].value

\* C9: when the process dies after a flush has persisted its manifest edit and
\* before the WAL checkpoint, with no write call running and no I/O failure,
\* the engine initialised next returns for every key what get returned before
\* the crash.
C9_RestartBeforeCheckpointSameView ==
  [][(initialized /\ ~initialized' /\ flushPc = "open" /\ Unsettled = {} /\ faults = 0) =>
       \A k \in Keys : RestartGet(k)' = Get(k)]_vars

\* C7: the records of the log are on disk in the order of their sequence ids,
\* for any interleaving of appends, timer-driven batch flushes and checkpoints
\* on a running engine.
C7_DiskOrderIsSequenceOrder ==
  crashes = 0 => InSequenceOrder(diskRecords)

\* C10: under group commit a batch settles as a unit: the appends of one batch
\* have all resolved or have all failed; when the fsync of a batch has failed
\* (the only failure so far, on a store that has flushed nothing) none of its
\* writes is in a layer any later get reads, and the writes of a resolved batch
\* have all been applied.
C10_BatchSettlesAsUnit ==
  \A i \in 1..Len(ops) :
     /\ \A j \in 1..Len(ops) :
           (ops[i].batch # 0 /\ ops[i].batch = ops[j].batch) =>
              /\ ops[i].status = "failed" <=> ops[j].status = "failed"
              /\ ops[i].status = "done" <=> ops[j].status = "done"
     /\ (ops[i].status = "failed" /\ faults = 1 /\ sstFiles = EmptyMap) => ~InLayers(i)
     /\ ops[i].status = "done" => Pos(i) # 0

\* ------------------------------------------- a directory with SSTables
\* The data directory an earlier run left after two flushes and their
\* checkpoints: SSTables 1 and 2, a manifest that lists them, one empty log
\* segment. The engine is constructed on it and runs as under Spec.
StoredEntry(v) == [value |-> v, op |-> 0, deleted |-> FALSE]

Stored(n) ==
  /\ NoMerge
  /\ NotStarted
  /\ Standalone
  /\ initialized = FALSE
  /\ activeMemTable = NewMemTable
  /\ immutableMemTable = << >>
  /\ sstables = << >>
  /\ flushing = FALSE
  /\ flushPc = "idle"
  /\ flushLocal = NoFlushLocal
  /\ manState = EMPTY_MANIFEST_STATE
  /\ manDisk = << [sstables |-> [i \in 1..n |-> Meta(n + 1 - i)], nextFileNumber |-> n + 1,
                   version |-> n] >>
  /\ manTmp = << >>
  /\ sstFiles = [i \in 1..n |-> MapPut(EmptyMap, 1, StoredEntry(i))]
  /\ walFiles = MapPut(EmptyMap, 1, << >>)
  /\ currentLogFile = 0
  /\ fileHandle = "closed"
  /\ sequenceId = 0
  /\ pendingWrites = << >>
  /\ batches = << >>
  /\ compacting = FALSE
  /\ compPc = "idle"
  /\ compLocal = NoCompLocal
  /\ clock = 1
  /\ policy = "sync"
  /\ ops = << >>
  /\ applied = << >>
  /\ notified = << >>
  /\ crashes = 0
  /\ faults = 0

InitFiles == Stored(StoredFiles)

\* The writes are MaxFileOps at most and no I/O call fails.
NextFiles ==
  \/ Initialize
  \/ \E kind \in {"put", "delete"}, k \in Keys :
        Len(ops) < MaxFileOps /\ WriteCallSync(kind, k)
  \/ \E id \in 1..MaxOps, placeholder \in PlaceholderBytes : WriteReturns(id, placeholder)
  \/ \E id \in 1..MaxOps : SyncReturns(id)
  \/ FlushBuild
  \/ FlushManifestWrite
  \/ FlushManifestRename
  \/ FlushOpenReader
  \/ CheckpointUnlink
  \/ CheckpointRotate
  \/ TriggerCompaction
  \/ CompactionMerge
  \/ CompactionEmpty
  \/ CompactionBuild
  \/ CompactionManifestWrite
  \/ CompactionManifestRename
  \/ CompactionNotify
  \/ CompactionInstall
  \/ CompactionDeleteOld

SpecFiles == InitFiles /\ [][NextFiles]_vars

\* The same directory with batchPut calls of up to MaxBatch entries, a
\* compaction beside them and process deaths.
BatchInputs == UNION { [1..n -> Keys] : n \in 1..MaxBatch }

NextBatch ==
  \/ Initialize
  \/ \E keys \in BatchInputs : Len(ops) < MaxBatchOps /\ WriteCallSync("batchPut", keys)
  \/ \E id \in 1..MaxOps, placeholder \in PlaceholderBytes : WriteReturns(id, placeholder)
  \/ \E id \in 1..MaxOps : SyncReturns(id)
  \/ FlushBuild
  \/ FlushManifestWrite
  \/ FlushManifestRename
  \/ FlushOpenReader
  \/ CheckpointUnlink
  \/ CheckpointRotate
  \/ TriggerCompaction
  \/ CompactionMerge
  \/ CompactionBuild
  \/ CompactionManifestWrite
  \/ CompactionManifestRename
  \/ CompactionNotify
  \/ CompactionInstall
  \/ CompactionDeleteOld
  \/ Crash

SpecBatch == InitFiles /\ [][NextBatch]_vars

\* The same directory, with a get call beside the writes and the compaction.
NextRead ==
  \/ Initialize
  \/ \E k \in Keys : GetCall(k)
  \/ GetReturns
  \/ \E kind \in {"put", "delete"}, k \in Keys :
        Len(ops) < MaxReadOps /\ WriteCallSync(kind, k)
  \/ \E id \in 1..MaxOps, placeholder \in PlaceholderBytes : WriteReturns(id, placeholder)
  \/ \E id \in 1..MaxOps : SyncReturns(id)
  \/ FlushBuild
  \/ FlushManifestWrite
  \/ FlushManifestRename
  \/ FlushOpenReader
  \/ CheckpointUnlink
  \/ CheckpointRotate
  \/ TriggerCompaction
  \/ CompactionMerge
  \/ CompactionEmpty
  \/ CompactionBuild
  \/ CompactionManifestWrite
  \/ CompactionManifestRename
  \/ CompactionNotify
  \/ CompactionInstall
  \/ CompactionDeleteOld

SpecRead == InitFiles /\ [][NextRead]_vars

\* The engine from construction to the end of close, on a directory one
\* SSTable short of what starts a compaction: initialize and close are called
\* once each, writes (MaxCloseOps at most) and triggerCompaction at any time.
InitClose == Stored(CompactionThreshold - 1)

NextClose ==
  \/ closePc = "none" /\ Initialize
  \/ \E kind \in {"put", "delete"}, k \in Keys :
        Len(ops) < MaxCloseOps /\ WriteCallSync(kind, k)
  \/ \E kind \in {"put", "delete"}, k \in Keys :
        Len(ops) < MaxCloseOps /\ RejectedCall(kind, k)
  \/ \E id \in 1..MaxOps, placeholder \in PlaceholderBytes : WriteReturns(id, placeholder)
  \/ \E id \in 1..MaxOps : SyncReturns(id)
  \/ FlushBuild
  \/ FlushManifestWrite
  \/ FlushManifestRename
  \/ FlushOpenReader
  \/ CheckpointUnlink
  \/ CheckpointRotate
  \/ TriggerCompaction
  \/ TriggerIgnored
  \/ CheckAndTrigger
  \/ CompactionMerge
  \/ CompactionEmpty
  \/ CompactionBuild
  \/ CompactionManifestWrite
  \/ CompactionManifestRename
  \/ CompactionNotify
  \/ CompactionInstall
  \/ CompactionDeleteOld
  \/ CloseCall
  \/ CloseStopped
  \/ CloseFlushed
  \/ CloseReaders
  \/ CloseReturns

SpecClose == InitClose /\ [][NextClose]_vars

\* ------------------------------------------------------------ a Primary
\* A Primary constructed on an empty data directory with its Backup
\* listening, sync-every-write; MaxReplOps writes at most, no compaction.
InitRepl ==
  /\ NoMerge
  /\ NotStarted
  /\ Constructed("sync")
  /\ role = "primary"
  /\ backupUp = TRUE
  /\ NoTraffic

NextRepl ==
  \/ Initialize
  \/ \E kind \in {"put", "delete"}, k \in Keys :
        Len(ops) < MaxReplOps /\ WriteCallSync(kind, k)
  \/ \E id \in 1..MaxOps, placeholder \in PlaceholderBytes : WriteReturns(id, placeholder)
  \/ \E id \in 1..MaxOps : SyncReturns(id)
  \/ FlushBuild
  \/ FlushManifestWrite
  \/ FlushManifestRename
  \/ FlushOpenReader
  \/ CheckpointUnlink
  \/ CheckpointRotate
  \/ Connect
  \/ ConnectSucceeds
  \/ ConnectFails
  \/ TimerFires
  \/ ConnectionClosed
  \/ \E status \in {"OK", "ERROR"} : BackupReceives(status)
  \/ AckArrives
  \/ BackupStops
  \/ BackupStarts

SpecRepl == InitRepl /\ [][NextRepl]_vars

\* The Primary and the Backup with the acks arriving in chunks.
NextAcks ==
  \/ Initialize
  \/ \E kind \in {"put", "delete"}, k \in Keys :
        Len(ops) < MaxReplOps /\ WriteCallSync(kind, k)
  \/ \E id \in 1..MaxOps, placeholder \in PlaceholderBytes : WriteReturns(id, placeholder)
  \/ \E id \in 1..MaxOps : SyncReturns(id)
  \/ FlushBuild
  \/ FlushManifestWrite
  \/ FlushManifestRename
  \/ FlushOpenReader
  \/ CheckpointUnlink
  \/ CheckpointRotate
  \/ Connect
  \/ ConnectSucceeds
  \/ ConnectFails
  \/ TimerFires
  \/ ConnectionClosed
  \/ \E status \in {"OK", "ERROR"} : BackupReceives(status)
  \/ AckHeadArrives
  \/ AckRestArrives
  \/ BackupStops
  \/ BackupStarts

SpecAcks == InitRepl /\ [][NextAcks]_vars

\* The same with what the event loop guarantees: a timer that is set fires,
\* a socket that is connecting or has lost its peer gets its event, and a
\* write or sync issued on the log returns.
SpecReplLive ==
  /\ InitRepl
  /\ [][NextRepl]_vars
  /\ WF_vars(\E id \in 1..MaxOps, placeholder \in PlaceholderBytes : WriteReturns(id, placeholder))
  /\ WF_vars(\E id \in 1..MaxOps : SyncReturns(id))
  /\ WF_vars(TimerFires)
  /\ WF_vars(ConnectSucceeds)
  /\ WF_vars(ConnectFails)
  /\ WF_vars(ConnectionClosed)

\* C11: when the last record of a segment is damaged (a flipped byte, a file
\* cut short, a declared length past the end of the file), replay returns
\* exactly the records before it and initialize completes with those records
\* applied to the MemTable.
C11_DamagedTailDropped ==
  initialized =>
     /\ replay = Front(walFiles[1])
     /\ activeMemTable = ApplyAll(NewMemTable, Front(walFiles[1]))

\* The pairs a range query over [startKey, endKey] has to yield when no limit
\* cuts it: the keys of the range whose entry in the first layer that holds
\* them is a put, in ascending order, each with that value.
RangeExpected(startKey, endKey) ==
  LET keys == SortedSeq({ k \in Keys : /\ k >= startKey /\ k <= endKey
                                       /\ FindEntry(k) # << >>
                                       /\ ~FindEntry(k)[1].deleted })
  IN [i \in 1..Len(keys) |-> [key |-> keys[i], value |-> FindEntry(keys[i])[1].value]]

\* C12: readKeyRange(s, e, limit) yields the first limit pairs (all of them when
\* there are fewer) of the ascending list of the keys in [s, e] whose latest
\* entry across the MemTables and the readers is a put, each with that value;
\* never more than limit pairs, for every limit >= 0; nothing when s > e.
C12_RangeQuery ==
  initialized =>
     \A startKey \in Keys, endKey \in Keys, limit \in 0..MaxLimit :
        LET full == RangeExpected(startKey, endKey)
            n == IF Len(full) < limit THEN Len(full) ELSE limit
        IN readKeyRange(startKey, endKey, limit) = SubSeq(full, 1, n)

\* The sources of the merge that hold key k, and the entry of k in source i.
Holders(k) ==
  { i \in 1..Len(mergeSources) : \E j \in 1..Len(mergeSources[i]) : mergeSources[i][j].key = k }

EntryIn(i, k) ==
  mergeSources[i][CHOOSE j \in 1..Len(mergeSources[i]) : mergeSources[i][j].key = k]

C14_ManifestListsExistingFiles ==
  \A i \in 1..Len(LoadedManifest.sstables) :
     LoadedManifest.sstables[i].fileNumber \in DOMAIN sstFiles


\* C15: after every manifest edit, whatever the interleaving of flushes and
\* compactions, nextFileNumber is larger than the file number of every SSTable
\* of the live list.
C15_NextFileNumberAboveLive ==
  \A i \in 1..Len(manState.sstables) :
     manState.nextFileNumber > manState.sstables[i].fileNumber


\* The state of the engine as its caller sees it: close has not been called
\* and initialize has or has not finished, close is running, close has
\* returned.
Stage ==
  IF closePc = "none" THEN (IF initialized THEN "Ready" ELSE "Uninitialized")
  ELSE IF closePc = "closed" THEN "Closed" ELSE "Closing"

\* C16: the engine moves only along Uninitialized, Ready, Closing, Closed, and
\* a put or delete called in a state other than Ready (close still running
\* included) is rejected and changes nothing of the engine, its log or its
\* files.
C16_RejectedOutsideReady ==
  [][ /\ << Stage, Stage' >> \in { << "Uninitialized", "Uninitialized" >>,
                                   << "Uninitialized", "Ready" >>,
                                   << "Ready", "Ready" >>, << "Ready", "Closing" >>,
                                   << "Closing", "Closing" >>, << "Closing", "Closed" >>,
                                   << "Closed", "Closed" >> }
      /\ (Len(ops') = Len(ops) + 1 /\ Stage # "Ready")
            => /\ ops'[Len(ops')].status = "rejected"
               /\ UNCHANGED << engineVars, manifestVars, sstFiles, walVars >> ]_vars

\* C17: once close has returned no flush and no compaction is under way,
\* whichever of the timer and triggerCompaction started it, none starts, and
\* every put or delete called from then on fails.
C17_CloseDrains ==
  /\ [](closePc = "closed" => (~flushing /\ flushPc = "idle" /\ ~compacting /\ compPc = "idle"))
  /\ [][ (closePc = "closed" /\ Len(ops') = Len(ops) + 1)
            => ops'[Len(ops')].status \in {"rejected", "failed"} ]_vars

\* C18: at most one doCompaction call is between its entry and its finally at
\* any time, and the compacting flag is set exactly while one is; a
\* triggerCompaction call or a timer check that finds one running returns
\* without starting another.
C18_OneCompaction ==
  /\ compRuns <= 1
  /\ compacting <=> compRuns = 1
  /\ compacting <=> compPc # "idle"

\* A triggerCompaction call has arrived during a compaction and has returned,
\* and that compaction is still running.
C18_Witness == skips = 1 /\ compacting /\ compRuns = 1 /\ compPc = "man_write"

\* C19: on a Primary a put or delete whose log record is durable completes
\* there and then, whatever the state of the replication (connected or not, a
\* reconnect pending, acks outstanding or answered with an error): the step
\* that ends its append is possible in every such state and leaves the write
\* completed.
C19_CommitNeverWaits ==
  \A id \in 1..Len(ops) :
     ops[id].status = "syncing" => ENABLED (SyncReturns(id) /\ ops'[id].status = "done")

\* Two writes have completed on a Primary whose connection is lost and whose
\* reconnect is pending: the first was sent and never acknowledged, the second
\* was not sent at all.
C19_Witness ==
  /\ Len(ops) = 2
  /\ ops[1].status = "done"
  /\ ops[2].status = "done"
  /\ ~connected
  /\ reconnectTimer
  /\ sent = << ops[1].seq >>
  /\ received = << >>

\* No record is written to a socket twice.
NoResend == \A i, j \in 1..Len(sent) : sent[i] = sent[j] => i = j

\* C20: a Primary that has had a connection and whose Backup is, from some
\* point on, reachable for good is connected again from some point on, further
\* writes or none, earlier reconnect attempts failed or not; and no record is
\* sent a second time.
C20_Reconnects ==
  /\ (<>connected /\ <>[]backupUp) => <>[]connected
  /\ []NoResend

IsReplicate(frame) == frame.opcode = "REPLICATE"

\* C21: the acks the Backup has written are, in order, one for each Replicate
\* frame it has received, each with that frame's sequence id and a status of
\* OK or ERROR, also when an unknown frame has arrived on the connection.
C21_OneAckPerReplicate ==
  LET asked == SelectSeq(framesIn, IsReplicate)
  IN /\ Len(acks) = Len(asked)
     /\ \A i \in 1..Len(acks) :
           /\ acks[i].sequenceId = asked[i].sequenceId
           /\ acks[i].status \in {"OK", "ERROR"}

\* How often the listener was called with the sequence id seq.
Calls(seq) == Cardinality({ i \in 1..Len(notified) : notified[i] = seq })

\* C22: the listener has been called exactly once for every append that has
\* resolved, not at all for an append that failed or has not yet resolved, and
\* with increasing sequence ids.
C22_ListenerAfterDurable ==
  /\ \A id \in 1..Len(ops) :
        Calls(ops[id].seq) = IF ops[id].status = "done" THEN 1 ELSE 0
  /\ \A i, j \in 1..Len(notified) : i < j => notified[i] < notified[j]

\* The entries of the MemTable mt are those of an SSTable file that the
\* manifest file lists.
Flushed(mt) ==
  /\ manDisk # << >>
  /\ \E i \in 1..Len(manDisk[1].sstables) :
        LET n == manDisk[1].sstables[i].fileNumber
        IN n \in DOMAIN sstFiles /\ sstFiles[n] = mt.data

\* C23: a step changes the immutable MemTable only by freezing the active one
\* or by dropping it, never by writing to it, and where there was an immutable
\* MemTable before the step, its entries were in an SSTable listed in the
\* manifest file, also after a flush that failed.
C23_FrozenKeptUntilFlushed ==
  [][immutableMemTable' # immutableMemTable =>
       /\ immutableMemTable' = << >> \/ activeMemTable' = NewMemTable
       /\ immutableMemTable # << >> => Flushed(immutableMemTable[1])]_vars

\* No file number occurs twice in a list of SSTables.
DistinctFileNumbers(list) ==
  \A i, j \in 1..Len(list) : list[i].fileNumber = list[j].fileNumber => i = j

\* C24: a flush and a compaction that are both under way and both build an
\* SSTable hold different file numbers, and neither the manifest in memory nor
\* the manifest file lists a file number twice.
C24_OneBuildPerFileNumber ==
  /\ (flushPc # "idle" /\ compLocal.newFileNumber # 0 /\ compLocal.merged # EmptyMap)
        => flushLocal.fileNumber # compLocal.newFileNumber
  /\ DistinctFileNumbers(manState.sstables)
  /\ manDisk # << >> => DistinctFileNumbers(manDisk[1].sstables)

\* C25: of two open SSTables that both hold a key, the one with the larger
\* file number holds the write of that key that was issued later, or the same
\* write.
C25_FileNumberOrderIsRecency ==
  \A i, j \in 1..Len(sstables) :
     sstables[i].fileNumber > sstables[j].fileNumber =>
        \A k \in (DOMAIN sstables[i].data) \cap (DOMAIN sstables[j].data) :
           sstables[i].data[k].op >= sstables[j].data[k].op

\* A step freezes a MemTable.
Swapped == immutableMemTable' # immutableMemTable /\ immutableMemTable' # << >>

\* C26: a MemTable is frozen only in a step before which no flush was in
\* progress, and it is full; a write that completes while a flush is in
\* progress leaves the immutable MemTable and the flush as they are and its
\* entry in the active MemTable, however full; and while a flush is under way
\* the flag is set and there is an immutable MemTable.
C26_SwapOnlyWhenIdle ==
  /\ [](flushPc # "idle" => flushing /\ immutableMemTable # << >>)
  /\ [][/\ Swapped => /\ ~flushing
                      /\ isFull(immutableMemTable'[1])
                      /\ flushing'
                      /\ activeMemTable' = NewMemTable
        /\ (flushing /\ applied' # applied) =>
              /\ immutableMemTable' = immutableMemTable
              /\ flushPc' = flushPc
              /\ flushLocal' = flushLocal
              /\ activeMemTable' # NewMemTable]_vars

\* A flush is in progress and the active MemTable is full: the write that
\* filled it found the flush running.
C26_Witness ==
  /\ flushing
  /\ flushPc # "idle"
  /\ isFull(activeMemTable)

\* C27: on an initialized engine with no flush and no compaction under way,
\* the open readers are those of the SSTables the manifest lists, by
\* descending file number.
C27_ReadersFollowManifest ==
  (initialized /\ flushPc = "idle" /\ compPc = "idle") =>
     /\ FileNumbers(sstables) = FileNumbers(manState.sstables)
     /\ \A i, j \in 1..Len(sstables) :
           i < j => sstables[i].fileNumber > sstables[j].fileNumber

\* C28: a get call does not fail, and the value it returns is the one the
\* MemTables and SSTables held for its key when it was called, whatever a
\* compaction has done meanwhile.
C28_ReadSurvivesCompaction ==
  /\ rd.status # "failed"
  /\ rd.status = "done" => rd.result = rd.expected

\* The records of the segments names, in this order, up to the first frame at
\* which readLogFile stops.
RECURSIVE ReadUntilBad(_)
ReadUntilBad(names) ==
  IF names = << >> THEN << >>
  ELSE LET read == readLogFile(walFiles[Head(names)])
       IN IF Len(read) < Len(walFiles[Head(names)]) THEN read
          ELSE read \o ReadUntilBad(Tail(names))

\* C29: what replay returns at initialize is the records of the segments in
\* file name order up to the first bad frame, and none of a later segment.
C29_ReplayIsPrefix ==
  initialized =>
     /\ replay = ReadUntilBad(SortedSeq(DOMAIN walFiles))
     /\ activeMemTable = ApplyAll(NewMemTable, ReadUntilBad(SortedSeq(DOMAIN walFiles)))

\* A call of Manifest.save is under way.
SaveInProgress ==
  flushPc \in {"man_write", "man_rename"} \/ compPc \in {"man_write", "man_rename"}

\* The manifest file holds the state the manifest has in memory.
ManifestSaved ==
  \/ manDisk = << manState >>
  \/ manDisk = << >> /\ manState = EMPTY_MANIFEST_STATE

\* C30: the save of a flush and the save of a compaction both end with their
\* rename done, whether they overlap or not, and after a step that leaves no
\* save under way the manifest file holds the state in memory, the edits of
\* both in it.
C30_OverlappingEditsBothSaved ==
  [][/\ (flushPc = "man_rename" /\ flushPc' # "man_rename") => flushPc' = "open"
     /\ (compPc = "man_rename" /\ compPc' # "man_rename") => compPc' \in {"notify", "delete"}
     /\ (initialized' /\ ~SaveInProgress') => ManifestSaved']_vars

\* The list is in descending order of file number.
SortedDesc(list) ==
  \A i \in 1..Len(list) - 1 : list[i].fileNumber >= list[i + 1].fileNumber

\* From state old, applyEdit has removed the files removed, added the file
\* number n and advanced the version by one.
EditApplied(old, new, removed, n) ==
  /\ Len(new.sstables) = Len(RemoveFiles(old.sstables, removed)) + 1
  /\ FileNumbers(new.sstables) = (FileNumbers(old.sstables) \ removed) \cup {n}
  /\ SortedDesc(new.sstables)
  /\ new.version = old.version + 1

\* A step of the save of content leaves the manifest file as it was or puts
\* content in it.
OldOrNew(content) ==
  manDisk' = manDisk \/ manDisk' = << content >>

\* C31: applyEdit makes the new state from the old list without the removed
\* files plus the added one, sorted by descending file number, with the version
\* one higher; when its save returns without an error the manifest file holds
\* the state this call put in memory; and every step of the save leaves in the
\* file the old state or the new one.
C31_ApplyEditIsAtomicSwap ==
  [][/\ (flushPc = "build" /\ flushPc' = "man_write") =>
           EditApplied(manState, manState', {}, flushLocal.fileNumber)
     /\ (compPc = "build" /\ compPc' = "man_write") =>
           EditApplied(manState, manState', FileNumbers(compLocal.metas),
                       compLocal.newFileNumber)
     /\ (flushPc = "man_rename" /\ flushPc' = "open") =>
           manDisk' = << flushLocal.content >>
     /\ (compPc = "man_rename" /\ compPc' \in {"notify", "delete"}) =>
           manDisk' = << compLocal.content >>
     /\ (flushPc \in {"man_write", "man_rename"} /\ flushPc' # flushPc) =>
           OldOrNew(flushLocal.content)
     /\ (compPc \in {"man_write", "man_rename"} /\ compPc' # compPc) =>
           OldOrNew(compLocal.content)]_vars

\* C32: when the save of a manifest edit fails, the call fails and the
\* manifest in memory is what it was before the call, which is what the file
\* MANIFEST holds.
C32_FailedEditLeavesState ==
  [][(flushPc \in {"man_write", "man_rename"} /\ flushPc' = "idle") =>
         ManifestSaved']_vars

\* C33: under group commit every append that is waiting, in pendingWrites or
\* in a batch being written, is resolved or rejected in the end, whatever the
\* flush, the checkpoint and close are doing.
C33_AppendSettles ==
  \A id \in 1..MaxOps :
     (id <= Len(ops) /\ ops[id].status \in {"pending", "batch"})
        ~> (id <= Len(ops) /\ ops[id].status \notin {"pending", "batch"})

\* The sum of the footprints of the entries of the keys ks in the map data.
RECURSIVE Footprints(_, _)
Footprints(data, ks) ==
  IF ks = {} THEN 0
  ELSE LET k == SetMin(ks)
       IN calculateEntrySize(k, data[k]) + Footprints(data, ks \ {k})

SizeIsExact(mt) ==
  /\ mt.currentSize = Footprints(mt.data, DOMAIN mt.data)
  /\ mt.currentSize >= 0
  /\ isFull(mt) <=> Footprints(mt.data, DOMAIN mt.data) >= MemTableSizeLimit

\* C34: the size a MemTable keeps is the sum of the footprints of the entries
\* in its map, so it is never negative, and the MemTable is full exactly when
\* that sum has reached the size limit.
C34_SizeIsSumOfFootprints ==
  /\ SizeIsExact(activeMemTable)
  /\ immutableMemTable # << >> => SizeIsExact(immutableMemTable[1])

\* The value the batchPut id leaves for key k: that of its last entry with k.
LastValue(id, k) ==
  BatchValue(id, SetMax({ i \in 1..Len(ops[id].key) : ops[id].key[i] = k }))

\* get finds for k the entry of the batchPut id; it finds an older entry or
\* none.
FromBatch(id, k) == FindEntry(k) # << >> /\ FindEntry(k)[1].op = id

BeforeBatch(id, k) == FindEntry(k) = << >> \/ FindEntry(k)[1].op < id

\* C35: a batchPut writes one log record; what get finds of it for a key,
\* before and after a restart, is the value of its last entry with that key;
\* and after a process death and restart get finds all of its keys or none.
C35_BatchPutIsAtomic ==
  \A id \in 1..Len(ops) :
     ops[id].kind = "batchPut" =>
        /\ Cardinality({ i \in 1..Len(diskRecords) : diskRecords[i].op = id }) <= 1
        /\ \A k \in Range(ops[id].key) :
              FromBatch(id, k) => /\ FindEntry(k)[1].value = LastValue(id, k)
                                  /\ ~FindEntry(k)[1].deleted
        /\ (initialized /\ crashes > 0) =>
              ~ \E k1, k2 \in Range(ops[id].key) : FromBatch(id, k1) /\ BeforeBatch(id, k2)

\* C36: every ReplicateAck the Primary processes settles the pending record
\* that has the sequence id of the ack, also after a connection was lost and a
\* new one made; nothing that came over an old connection settles a record
\* sent on a newer one.
C36_AckSettlesItsRecord ==
  [][AckRestArrives =>
        LET handled == handleData(mgrBuffer \o RestOfAck).handled
        IN \A i \in 1..Len(handled) :
              i <= Len(pendingAcks) => handled[i].sequenceId = pendingAcks[i]]_vars

\* C37: the Backup never has two active Primary connections: whatever the
\* order of the 'connection', 'error' and 'close' events of its sockets, at
\* most one socket that handleConnection accepted is still active.
C37_OneActiveConnection == Cardinality(ActiveSockets) <= 1

\* C38: the components order keys alike: the order in which the MemTable
\* iterates its keys and the merge iterator yields keys is the order the
\* SSTable writer checks, so that no flush and no compaction fails the
\* writer's strictly-ascending check, whatever the keys.
C38_OneKeyOrder == ~ordThrown

\* C39: whatever the entries and the sparse index interval an SSTable was
\* built with, get(k) of its reader returns what a scan of the data section
\* finds for k: the entry with that key, value or tombstone, or nothing.
C39_GetIsScan ==
  tblRead # << >> =>
     /\ ~tblRead[1].out.thrown
     /\ tblRead[1].out.found = ScanFor(tblFile[1].data, tblRead[1].key)

\* C40: the empty value is a value: with no fault and no close, a put of the
\* empty string is accepted under either sync policy, and no append fails
\* because a put of the empty string is pending with it.
C40_EmptyValueIsAccepted ==
  \A id \in 1..Len(ops) : ops[id].status # "failed"

====
